---------------------------- MODULE Spec2Model ----------------------------
(***************************************************************************)
(* A model of the gremlin spectral ray tracer (gmhorn/gremlin): the film   *)
(* and its tiled, concurrent renderer (pkg/render, pkg/camera), the tile   *)
(* partition (pkg/util) and the vector / ray constructors (pkg/geo).       *)
(*                                                                         *)
(* Several specifications share the module, among them:                   *)
(*   Spec          render.Fixed / render.Render: a coordinator goroutine   *)
(*                 that spawns one worker goroutine per tile and merges    *)
(*                 the tiles it receives on an unbuffered channel;         *)
(*   SpecFair      the same under weak fairness of the scheduler;          *)
(*   SpecPartition util.Partition applied to drawn inputs;                 *)
(*   SpecFilm      camera.NewFilm, Pixel.AddColor, Film.Merge, Film.Image  *)
(*                 called in any order;                                    *)
(*   SpecGeo       geo.Vec.Unit, geo.NewRay and camera.Perspective.Ray     *)
(*                 applied to drawn inputs;                                *)
(*   SpecMetrics   metrics.Count64 and metrics.Quantity64 called from      *)
(*                 several goroutines, one atomic operation per step;      *)
(*   SpecTiling    the loops of util.Partition and render.Render, one      *)
(*                 iteration per step, for every integer tile size.        *)
(* The others (SpecMtx, SpecCamera, SpecColor, SpecSpectrum, SpecPixel,    *)
(* SpecShape, SpecScene, SpecQuadratic, SpecRaster) apply one function of  *)
(* pkg/geo, pkg/camera, pkg/colorspace, pkg/spectrum, pkg/shape, pkg/util  *)
(* or pkg/render to inputs drawn from bounded sets.                        *)
(* A specification leaves the variables of the others untouched.           *)
(***************************************************************************)
EXTENDS Integers, Sequences, FiniteSets, TLC

VARIABLES
    \* ---- render.Fixed / render.Render ----
    mode,       \* "Fixed" or "Render": which entry point runs
    binSize,    \* Render's binSize argument / Fixed's tileSize
    seed,       \* what fixes the pseudo-random sample sequence of the run
    scene,      \* Fixed's scene: a sequence of shape kinds
    film,       \* the *camera.Film handed to the renderer
    tiles,      \* Fixed: util.Partition's bins; Render: the bins spawned so far
    offset,     \* Render's loop variable offset
    workers,    \* the goroutines spawned so far, in spawn order
    received,   \* tiles the coordinator has taken from the channel
    pc,         \* the coordinator's position
    cur,        \* the *FilmTile the coordinator took from the channel, or NoTile
    mergeOrder, \* the offsets of the merged tiles, in merge order
    writes,     \* <<location, goroutine>>: memory writes done so far
    reads,      \* <<location, goroutine>>: memory reads done so far
    \* ---- util.Partition ----
    pin,        \* the drawn arguments [elems, size]
    pout,       \* the returned bins, or <<>> before the call
    ppc,        \* "init" or "done"
    \* ---- camera.Film ----
    fpc,        \* "new", "ready", "panicked"
    fargs,      \* the <<width, height>> NewFilm was called with
    ffilm,      \* the film under test
    ftile,      \* a FilmTile being accumulated by its owner
    fsum,       \* per film pixel: the contributions merged into it (sum, count)
    tsum,       \* per tile pixel: the contributions added to it (sum, count)
    fimg,       \* what the last Film.Image call computed, <<>> if none
    fops,       \* operations performed so far
    \* ---- a function applied to drawn inputs (geo, spectrum, ...) ----
    gop,        \* "init" or the operation applied
    gin,        \* the drawn inputs
    gout,       \* the operation's outcome
    \* ---- camera.Perspective ----
    cam,        \* the *Perspective, NoCamera before NewPerspective
    cop,        \* the last operation on it: "none", "New", "MoveTo", ...
    cray,       \* what the last Ray call read and returned, <<>> if none
    cops,       \* operations performed so far
    \* ---- metrics.Count64 and metrics.Quantity64 ----
    met,        \* the two counters and what has been done to them
    mproc       \* the calling goroutines: position and locals of each

renderVars == <<mode, binSize, seed, scene, film, tiles, offset, workers,
                received, pc, cur, mergeOrder, writes, reads>>
partVars == <<pin, pout, ppc>>
filmVars == <<fpc, fargs, ffilm, ftile, fsum, tsum, fimg, fops>>
geoVars == <<gop, gin, gout>>
camVars == <<cam, cop, cray, cops>>
metVars == <<met, mproc>>
vars == <<renderVars, partVars, filmVars, geoVars, camVars, metVars>>
notRender == <<partVars, filmVars, geoVars, camVars, metVars>>
notPartition == <<renderVars, filmVars, geoVars, camVars, metVars>>
notFilm == <<renderVars, partVars, geoVars, camVars, metVars>>
notGeo == <<renderVars, partVars, filmVars, camVars, metVars>>
notCamera == <<renderVars, partVars, filmVars, geoVars, metVars>>
notMetrics == <<renderVars, partVars, filmVars, geoVars, camVars>>

-----------------------------------------------------------------------------
(* Bounds of the model. *)

MaxWidth == 3
MaxHeight == 2
MaxPixels == 4
MaxBinSize == 3
MaxSeed == 1
MaxShapes == 1
MaxElems == 15
MaxSize == 4
MaxFilmDim == 2
MaxOps == 6
MaxCoord == 3
\* The vectors of SpecGeo have whole components that count grid steps; these
\* two fix how many steps make geo's epsilon and how many make 1.0.
StepsPerEpsilon == 2
StepsPerOne == 4

(* Program constants. *)

\* render.go: const samples = 32
samples == 32

-----------------------------------------------------------------------------
(* pkg/util *)

\* util.IntMin
IntMin(a, b) == IF a < b THEN a ELSE b

Bin(off, size) == [Offset |-> off, Size |-> size]

RECURSIVE PartitionLoop(_, _, _, _)
PartitionLoop(elems, size, off, bins) ==
    IF size < elems
    THEN PartitionLoop(elems - size, size, off + size, Append(bins, Bin(off, size)))
    ELSE IF elems > 0 THEN Append(bins, Bin(off, elems)) ELSE bins

\* A slip a partition loop invites: the last bin keeps the full size.
PartitionFullLast(elems, size) ==
    LET n == (elems + size - 1) \div size
    IN  [k \in 1..n |-> Bin((k - 1) * size, size)]

\* util.Partition
Partition(elems, size) == PartitionLoop(elems, size, 0, <<>>)

-----------------------------------------------------------------------------
(* pkg/camera: Pixel, Film, FilmTile *)

ZeroColor == <<0, 0, 0>>
ZeroPixel == [Color |-> ZeroColor, Samples |-> 0]

\* Pixel.AddColor without p.Samples++.
AddColorNoCount(p, c) ==
    [Color |-> <<p.Color[1] + c[1], p.Color[2] + c[2], p.Color[3] + c[3]>>,
     Samples |-> p.Samples]

\* Pixel.AddColor
AddColor(p, c) ==
    [Color |-> <<p.Color[1] + c[1], p.Color[2] + c[2], p.Color[3] + c[3]>>,
     Samples |-> p.Samples + 1]

\* make([]Pixel, n): n zero pixels, indexed from 0
MakePixels(n) == [i \in 0..(n - 1) |-> ZeroPixel]

\* The Film NewFilm returns when it does not panic.
FilmOf(width, height) ==
    [Width |-> width, Height |-> height, Pixels |-> MakePixels(width * height)]

NoFilm == [Width |-> 0, Height |-> 0, Pixels |-> <<>>]

\* NewFilm with && for ||: it panics only when both dimensions are bad.
NewFilmBothBad(width, height) ==
    IF width < 1 /\ height < 1
    THEN [panic |-> TRUE, film |-> NoFilm]
    ELSE [panic |-> FALSE, film |-> FilmOf(width, height)]

\* camera.NewFilm
NewFilm(width, height) ==
    IF width < 1 \/ height < 1
    THEN [panic |-> TRUE, film |-> NoFilm]
    ELSE [panic |-> FALSE, film |-> FilmOf(width, height)]

\* len(slice) of a 0-indexed slice
SliceLen(s) == Cardinality(DOMAIN s)

\* Film.Merge without the offset: every tile lands at index 0.
MergeNoOffset(f, tile) ==
    [f EXCEPT !.Pixels =
        [k \in DOMAIN f.Pixels |->
            IF k \in DOMAIN tile.Pixels
            THEN [Color |-> tile.Pixels[k].Color,
                  Samples |-> f.Pixels[k].Samples + tile.Pixels[k].Samples]
            ELSE f.Pixels[k]]]

\* Film.Merge: Color is assigned, Samples is added
Merge(f, tile) ==
    [f EXCEPT !.Pixels =
        [k \in DOMAIN f.Pixels |->
            IF (k - tile.Offset) \in DOMAIN tile.Pixels
            THEN [Color |-> tile.Pixels[k - tile.Offset].Color,
                  Samples |-> f.Pixels[k].Samples
                              + tile.Pixels[k - tile.Offset].Samples]
            ELSE f.Pixels[k]]]

\* Film.RasterCoords
RasterCoords(f, pxIdx) == <<pxIdx % f.Width, pxIdx \div f.Width>>

\* Film.PixelAt: the index, and whether &f.Pixels[pxIdx] panics (index out
\* of range)
PixelAt(f, x, y) ==
    LET pxIdx == x * f.Width + y
    IN  [pxIdx |-> pxIdx, panic |-> pxIdx \notin DOMAIN f.Pixels]

-----------------------------------------------------------------------------
(* pkg/render: what one sample contributes *)

\* The tristimulus value one sample adds to pixel pxIdx: colorspace.CIE1931
\* .Convert(rayColor(cam.Ray(film.RandomNDC(pxIdx, rnd)), scene)). The ray
\* starts from the pixel's raster coordinates; the seed fixes the jitter.
SampleXYZ(f, sd, pxIdx, s) ==
    LET rc == RasterCoords(f, pxIdx)
    IN  <<rc[1] + sd, rc[2] + (s % 2), 1>>

\* for s := 0; s < samples; s++ { pixels[i].AddColor(...) }
\* (q is the pixel after this iteration's AddColor)
RECURSIVE AddSamples(_, _, _, _, _)
AddSamples(p, f, sd, pxIdx, s) ==
    IF s < samples
    THEN CHOOSE r \in {AddSamples(q, f, sd, pxIdx, s + 1) :
                          q \in {AddColor(p, SampleXYZ(f, sd, pxIdx, s))}} : TRUE
    ELSE p

\* The worker samples its tile-local index, forgetting the tile's offset.
PixelIndexLocal(off, i) == i

\* i+offset: the film index of a tile's i-th pixel
PixelIndex(off, i) == i + off

\* renderTile's randColor for a given draw of the random source
TileColor(draw) == <<draw + 1, 2, 3>>

\* renderTile: every pixel of the tile gets the tile's colour and one sample
RenderTilePixels(size, draw) ==
    [i \in 0..(size - 1) |-> [Color |-> TileColor(draw), Samples |-> 1]]

-----------------------------------------------------------------------------
(* Memory locations and goroutines, for the access log *)

Main == 0                         \* the goroutine that called Fixed / Render
FilmPixels == <<"film.Pixels", 0>>
FilmDims == <<"film.Width,Height", 0>>
TilePixels(w) == <<"pixels", w>>  \* worker w's make([]camera.Pixel, size)
TileRnd(w) == <<"rnd", w>>        \* worker w's rand.New(...)
Global(name) == <<name, 0>>       \* a package-level variable

\* The package-level counters one Intersect call increments.
\* Triangle.Intersect: Calls++, two Vec.Cross (CrossCount++), Vec.Dot (DotCount++).
\* Sphere.Intersect: three Vec.Dot (DotCount++).
ShapeGlobals(kind) ==
    IF kind = "Triangle"
    THEN {Global("shape.Calls"), Global("geo.CrossCount"), Global("geo.DotCount")}
    ELSE {Global("geo.DotCount")}

\* The counters rayColor's loop over the scene increments.
SceneGlobals(sc) == UNION {ShapeGlobals(sc[k]) : k \in 1..Len(sc)}

-----------------------------------------------------------------------------
(* render.Fixed and render.Render *)

NoTile == [Offset |-> -1, Pixels |-> <<>>]
ShapeKinds == {"Sphere", "Triangle"}
Scenes == UNION {[1..n -> ShapeKinds] : n \in 0..MaxShapes}
FilmSizes ==
    {d \in (1..MaxWidth) \X (1..MaxHeight) : d[1] * d[2] <= MaxPixels}

InitRender ==
    /\ mode \in {"Fixed", "Render"}
    /\ binSize \in 1..MaxBinSize
    /\ seed \in 0..MaxSeed
    /\ scene \in (IF mode = "Fixed" THEN Scenes ELSE {<<>>})
    /\ \E d \in FilmSizes : film = FilmOf(d[1], d[2])
    /\ tiles = <<>>
    /\ offset = 0
    /\ workers = <<>>
    /\ received = 0
    /\ pc = IF mode = "Fixed" THEN "start" ELSE "spawn"
    /\ cur = NoTile
    /\ mergeOrder = <<>>
    /\ writes = {}
    /\ reads = {}

IdleRender ==
    /\ mode = "Fixed" /\ binSize = 1 /\ seed = 0 /\ scene = <<>>
    /\ film = FilmOf(1, 1) /\ tiles = <<>> /\ offset = 0 /\ workers = <<>>
    /\ received = 0 /\ pc = "idle" /\ cur = NoTile /\ mergeOrder = <<>>
    /\ writes = {} /\ reads = {}

\* go func(offset, size int) {...}(tile.Offset, tile.Size)
NewWorker(b) ==
    [pc |-> "run", Offset |-> b.Offset, Size |-> b.Size,
     pixels |-> MakePixels(b.Size), i |-> 0]

\* Fixed: tiles := util.Partition(len(film.Pixels), tileSize)
FixedPartition ==
    /\ mode = "Fixed" /\ pc = "start"
    /\ tiles' = Partition(SliceLen(film.Pixels), binSize)
    /\ pc' = "spawn"
    /\ reads' = reads \cup {<<FilmPixels, Main>>}
    /\ UNCHANGED <<mode, binSize, seed, scene, film, offset, workers, received,
                   cur, mergeOrder, writes>>
    /\ UNCHANGED notRender

\* Fixed: one iteration of  for _, tile := range tiles { go func ... }
FixedSpawn ==
    /\ mode = "Fixed" /\ pc = "spawn"
    /\ Len(workers) < Len(tiles)
    /\ workers' = Append(workers, NewWorker(tiles[Len(workers) + 1]))
    /\ pc' = IF Len(workers) + 1 = Len(tiles) THEN "await" ELSE "spawn"
    /\ UNCHANGED <<mode, binSize, seed, scene, film, tiles, offset, received,
                   cur, mergeOrder, writes, reads>>
    /\ UNCHANGED notRender

\* Render: one iteration of  for offset := 0; offset < len(film.Pixels); {...}
RenderSpawn ==
    /\ mode = "Render" /\ pc = "spawn"
    /\ offset < SliceLen(film.Pixels)
    /\ LET size == IntMin(binSize, SliceLen(film.Pixels) - offset)
       IN  /\ workers' = Append(workers, NewWorker(Bin(offset, size)))
           /\ tiles' = Append(tiles, Bin(offset, size))
           /\ offset' = offset + size
           /\ pc' = IF offset + size < SliceLen(film.Pixels)
                    THEN "spawn" ELSE "await"
    /\ reads' = reads \cup {<<FilmPixels, Main>>}
    /\ UNCHANGED <<mode, binSize, seed, scene, film, received, cur,
                   mergeOrder, writes>>
    /\ UNCHANGED notRender

\* A worker that accumulates straight into the film instead of its own slice.
WorkerPixelShared(w) ==
    /\ mode = "Fixed"
    /\ w \in 1..Len(workers)
    /\ workers[w].pc = "run"
    /\ LET wk == workers[w]
           idx == PixelIndex(wk.Offset, wk.i)
       IN  /\ film' = [film EXCEPT !.Pixels[idx] =
                          AddSamples(film.Pixels[idx], film, seed, idx, 0)]
           /\ workers' = [workers EXCEPT ![w].i = wk.i + 1,
                             ![w].pc = IF wk.i + 1 < wk.Size THEN "run" ELSE "send"]
    /\ writes' = writes \cup {<<FilmPixels, w>>, <<TileRnd(w), w>>}
                        \cup {<<g, w>> : g \in SceneGlobals(scene)}
    /\ reads' = reads \cup {<<FilmDims, w>>}
                      \cup {<<g, w>> : g \in SceneGlobals(scene)}
    /\ UNCHANGED <<mode, binSize, seed, scene, tiles, offset, received, pc,
                   cur, mergeOrder>>
    /\ UNCHANGED notRender

\* Fixed's worker: one iteration of  for i := range pixels {...}: the samples
\* of pixel i, each a camera ray traced against every shape of the scene
\* (rayColor) and added to the worker's own pixels[i].
WorkerPixel(w) ==
    /\ mode = "Fixed"
    /\ w \in 1..Len(workers)
    /\ workers[w].pc = "run"
    /\ LET wk == workers[w]
           idx == PixelIndex(wk.Offset, wk.i)
       IN  workers' = [workers EXCEPT
                          ![w].pixels[wk.i] =
                              AddSamples(wk.pixels[wk.i], film, seed, idx, 0),
                          ![w].i = wk.i + 1,
                          ![w].pc = IF wk.i + 1 < wk.Size THEN "run" ELSE "send"]
    /\ writes' = writes \cup {<<TilePixels(w), w>>, <<TileRnd(w), w>>}
                        \cup {<<g, w>> : g \in SceneGlobals(scene)}
    /\ reads' = reads \cup {<<FilmDims, w>>}
                      \cup {<<g, w>> : g \in SceneGlobals(scene)}
    /\ UNCHANGED <<mode, binSize, seed, scene, film, tiles, offset, received,
                   pc, cur, mergeOrder>>
    /\ UNCHANGED notRender

\* Render's worker: renderTile(offset, size), with its draw from math/rand's
\* lock-protected global source.
RenderTile(w) ==
    /\ mode = "Render"
    /\ w \in 1..Len(workers)
    /\ workers[w].pc = "run"
    /\ \E draw \in 0..MaxSeed :
          workers' = [workers EXCEPT
                         ![w].pixels = RenderTilePixels(workers[w].Size, draw),
                         ![w].i = workers[w].Size,
                         ![w].pc = "send"]
    /\ writes' = writes \cup {<<TilePixels(w), w>>}
    /\ UNCHANGED <<mode, binSize, seed, scene, film, tiles, offset, received,
                   pc, cur, mergeOrder, reads>>
    /\ UNCHANGED notRender

\* The rendezvous on the unbuffered channel: worker w's send completes as the
\* coordinator's receive takes its tile.
CoordRecv(w) ==
    /\ pc = "await"
    /\ w \in 1..Len(workers)
    /\ workers[w].pc = "send"
    /\ cur' = [Offset |-> workers[w].Offset, Pixels |-> workers[w].pixels]
    /\ workers' = [workers EXCEPT ![w].pc = "done"]
    /\ received' = received + 1
    /\ pc' = "merge"
    /\ UNCHANGED <<mode, binSize, seed, scene, film, tiles, offset,
                   mergeOrder, writes, reads>>
    /\ UNCHANGED notRender

\* The await loop leaving one iteration early.
CoordMergeOffByOne ==
    /\ pc = "merge"
    /\ film' = Merge(film, cur)
    /\ mergeOrder' = Append(mergeOrder, cur.Offset)
    /\ writes' = writes \cup {<<FilmPixels, Main>>}
    /\ reads' = reads \cup {<<FilmPixels, Main>>}
    /\ cur' = NoTile
    /\ pc' = IF received < Len(workers) - 1 THEN "await" ELSE "done"
    /\ UNCHANGED <<mode, binSize, seed, scene, tiles, offset, workers, received>>
    /\ UNCHANGED notRender

\* film.Merge(<-results), then the loop test of the await loop
CoordMerge ==
    /\ pc = "merge"
    /\ film' = Merge(film, cur)
    /\ mergeOrder' = Append(mergeOrder, cur.Offset)
    /\ writes' = writes \cup {<<FilmPixels, Main>>}
    /\ reads' = reads \cup {<<FilmPixels, Main>>}
    /\ cur' = NoTile
    /\ pc' = IF received < Len(workers) THEN "await" ELSE "done"
    /\ UNCHANGED <<mode, binSize, seed, scene, tiles, offset, workers, received>>
    /\ UNCHANGED notRender

IdlePartition == pin = [elems |-> 0, size |-> 1] /\ pout = <<>> /\ ppc = "idle"
IdleFilm ==
    /\ fpc = "idle" /\ fargs = <<1, 1>> /\ ffilm = FilmOf(1, 1) /\ ftile = NoTile
    /\ fsum = <<>> /\ tsum = <<>> /\ fimg = <<>> /\ fops = 0
IdleGeo == gop = "idle" /\ gin = <<>> /\ gout = <<>>
NoCamera == [eye |-> <<>>, target |-> <<>>]
IdleCamera == cam = NoCamera /\ cop = "idle" /\ cray = <<>> /\ cops = 0
IdleMetrics == met = <<>> /\ mproc = <<>>

Init == InitRender /\ IdlePartition /\ IdleFilm /\ IdleGeo /\ IdleCamera /\ IdleMetrics

Next ==
    \/ FixedPartition
    \/ FixedSpawn
    \/ RenderSpawn
    \/ \E w \in 1..MaxPixels : WorkerPixel(w)
    \/ \E w \in 1..MaxPixels : RenderTile(w)
    \/ \E w \in 1..MaxPixels : CoordRecv(w)
    \/ CoordMerge

Spec == Init /\ [][Next]_vars

\* Go's scheduler runs some goroutine as long as one can take a step (the
\* coordinator's receive can once some worker is sending).
Fairness == WF_vars(Next)

SpecFair == Init /\ [][Next]_vars /\ Fairness

-----------------------------------------------------------------------------
(* util.Partition applied to drawn arguments *)

InitPartition ==
    /\ pin \in [elems : 0..MaxElems, size : 1..MaxSize]
    /\ pout = <<>>
    /\ ppc = "init"

CallPartition ==
    /\ ppc = "init"
    /\ pout' = Partition(pin.elems, pin.size)
    /\ ppc' = "done"
    /\ UNCHANGED pin
    /\ UNCHANGED notPartition

NextPartition == CallPartition

PartitionInit == IdleRender /\ InitPartition /\ IdleFilm /\ IdleGeo /\ IdleCamera /\ IdleMetrics

SpecPartition == PartitionInit /\ [][NextPartition]_vars

-----------------------------------------------------------------------------
(* Claims about the renderer and the partition *)

FreshFilm == FilmOf(film.Width, film.Height)
TileOf(wk) == [Offset |-> wk.Offset, Pixels |-> wk.pixels]

\* The workers' tiles merged one after the other in spawn order.
RECURSIVE MergeInSpawnOrder(_, _)
MergeInSpawnOrder(f, k) ==
    IF k > Len(workers) THEN f
    ELSE MergeInSpawnOrder(Merge(f, TileOf(workers[k])), k + 1)

\* C1: whatever order the workers finish in and the coordinator receives and
\* merges their tiles in, the film Fixed / Render leaves behind is the one
\* obtained by merging the same tiles in spawn order.
C1_MergeOrderIndependent ==
    pc = "done" => film = MergeInSpawnOrder(FreshFilm, 1)

\* A run that merged at least two tiles, the first two against spawn order.
C1_Witness ==
    /\ pc = "done"
    /\ Len(mergeOrder) >= 2
    /\ mergeOrder[1] > mergeOrder[2]

\* The film rendered as one tile that covers every pixel.
SingleTileFilm ==
    LET n == SliceLen(film.Pixels)
        px == IF mode = "Fixed"
              THEN [i \in 0..(n - 1) |->
                       AddSamples(ZeroPixel, film, seed, PixelIndex(0, i), 0)]
              ELSE RenderTilePixels(n, seed)
    IN  Merge(FreshFilm, [Offset |-> 0, Pixels |-> px])

\* Each pixel's result is a fixed function of its index: always so in Fixed,
\* where the seed fixes the samples; in Render when every tile drew the
\* colour the seed stands for.
FixedPerPixelResults ==
    mode = "Render" =>
        \A w \in 1..Len(workers) :
            workers[w].pixels = RenderTilePixels(workers[w].Size, seed)

\* C2: when each pixel's result is a fixed function of its index, the film is
\* the same for every tile size: it equals the film rendered as a single tile.
C2_TileSizeIndependent ==
    (pc = "done" /\ FixedPerPixelResults) => film = SingleTileFilm

\* A finished run over several tiles, the last one shorter than the tile size.
C2_Witness ==
    /\ pc = "done"
    /\ FixedPerPixelResults
    /\ Len(tiles) >= 2
    /\ tiles[Len(tiles)].Size < binSize

\* C3: for elems >= 0 and size >= 1 Partition's bins are in ascending offset
\* order, contiguous, disjoint and cover [0, elems): the first starts at 0,
\* each starts where the previous ends, all but the last have Size = size,
\* the last has 1 <= Size <= size and ends at elems; elems = 0 gives no bins.
C3_PartitionCovers ==
    ppc = "done" =>
        LET n == Len(pout) IN
        /\ (pin.elems = 0) <=> (n = 0)
        /\ n > 0 => /\ pout[1].Offset = 0
                    /\ 1 <= pout[n].Size /\ pout[n].Size <= pin.size
                    /\ pout[n].Offset + pout[n].Size = pin.elems
        /\ \A k \in 2..n : pout[k].Offset = pout[k - 1].Offset + pout[k - 1].Size
        /\ \A k \in 1..(n - 1) : pout[k].Size = pin.size

\* A partition into at least three bins whose last bin is short.
C3_Witness ==
    /\ ppc = "done"
    /\ Len(pout) >= 3
    /\ pout[Len(pout)].Size < pin.size

\* C4: while Fixed's workers run, no memory location is written by one worker
\* and read or written by another.
C4_WorkersShareNothing ==
    \A a \in writes :
        a[2] # Main =>
            \A b \in writes \cup reads :
                (b[1] = a[1] /\ b[2] # Main) => b[2] = a[2]

\* C5: the film's pixel buffer is written only by the coordinating goroutine,
\* and only by its Merge call: at most one Merge is in progress, the
\* coordinator's, and the buffer changes in no other step.
C5_OnlyCoordinatorMerges ==
    /\ [](\A a \in writes : a[1] = FilmPixels => a[2] = Main)
    /\ [][film' # film => (pc = "merge" /\ pc' # "merge")]_vars

\* A merge is in progress while another worker is still rendering.
C5_Witness ==
    /\ pc = "merge"
    /\ <<FilmPixels, Main>> \in writes
    /\ \E w \in 1..Len(workers) : workers[w].pc = "run"

\* The merged tiles that cover pixel index i, by their place in mergeOrder.
MergedOver(i) ==
    {k \in 1..Len(mergeOrder) :
        \E j \in 1..Len(tiles) :
            /\ tiles[j].Offset = mergeOrder[k]
            /\ tiles[j].Offset <= i
            /\ i < tiles[j].Offset + tiles[j].Size}

\* C27: when Fixed has returned on a fresh film, every pixel index in
\* [0, Width*Height) is covered by exactly one merged tile and has Samples
\* equal to the samples constant; when Render has, Samples is 1.
C27_EveryPixelSampled ==
    pc = "done" =>
        /\ DOMAIN film.Pixels = 0..(film.Width * film.Height - 1)
        /\ \A i \in DOMAIN film.Pixels :
              /\ Cardinality(MergedOver(i)) = 1
              /\ film.Pixels[i].Samples = IF mode = "Fixed" THEN samples ELSE 1

\* Fixed has returned on a film of three pixels rendered as two tiles
C27_Witness ==
    /\ pc = "done"
    /\ mode = "Fixed"
    /\ Len(tiles) = 2
    /\ SliceLen(film.Pixels) = 3
    /\ film.Pixels[2].Samples = samples

\* Fixed or Render has returned: the coordinator has left its await loop
\* after one receive and one merge per goroutine spawned, one goroutine was
\* spawned per tile, and each has completed its send.
Returned ==
    /\ pc = "done"
    /\ Len(workers) = Len(tiles)
    /\ received = Len(workers)
    /\ Len(mergeOrder) = Len(workers)
    /\ \A w \in 1..Len(workers) :
          /\ workers[w].pc = "done"
          /\ \E k \in 1..Len(mergeOrder) : mergeOrder[k] = workers[w].Offset

\* C25: for every film and tile size >= 1, Fixed and Render return, having
\* received exactly one tile per spawned worker, every worker's send
\* matched by a receive and no goroutine left blocked.
C25_RenderTerminates == <>[]Returned /\ [](pc = "done" => Returned)

\* Render has returned after three workers, the first to be spawned the
\* last to be received
C25_Witness ==
    /\ Returned
    /\ mode = "Render"
    /\ Len(workers) = 3
    /\ mergeOrder[3] = workers[1].Offset

-----------------------------------------------------------------------------
(* float64 values: an exact ratio num/den in lowest terms (den >= 1), an    *)
(* infinity (num its sign), NaN, or the irrational num/sqrt(den) that       *)
(* normalising a vector can give. Rounding, overflow, underflow and the     *)
(* sign of zero are not modelled.                                           *)

Sgn(n) == IF n < 0 THEN -1 ELSE IF n > 0 THEN 1 ELSE 0
Abs(n) == IF n < 0 THEN -n ELSE n

RECURSIVE GCD(_, _)
GCD(a, b) == IF b = 0 THEN a ELSE GCD(b, a % b)

FNum(n, d) ==
    LET g == GCD(Abs(n), Abs(d))
    IN  [tag |-> "num", num |-> Sgn(d) * (n \div g), den |-> Abs(d) \div g]
FInf(sign) == [tag |-> "inf", num |-> sign, den |-> 1]
FNaN == [tag |-> "nan", num |-> 0, den |-> 1]
FSurd(n, d2) == [tag |-> "surd", num |-> n, den |-> d2]

\* 1 / x : 1/0 is +Inf, 1/Inf is 0
FRecipF(x) ==
    IF x.tag = "nan" \/ x.tag = "surd" THEN FNaN
    ELSE IF x.tag = "inf" THEN FNum(0, 1)
    ELSE IF x.num = 0 THEN FInf(1)
    ELSE FNum(x.den, x.num)

\* 1 / float64(samples) for an unsigned samples: +Inf when samples is 0
FRecip(n) == FRecipF(FNum(n, 1))

\* IEEE 754 multiplication
FMul(a, b) ==
    IF a.tag \in {"nan", "surd"} \/ b.tag \in {"nan", "surd"} THEN FNaN
    ELSE IF a.tag = "inf" \/ b.tag = "inf"
         THEN IF Sgn(a.num) * Sgn(b.num) = 0 THEN FNaN
              ELSE FInf(Sgn(a.num) * Sgn(b.num))
         ELSE FNum(a.num * b.num, a.den * b.den)

\* IEEE 754 addition
FAdd(a, b) ==
    IF a.tag \in {"nan", "surd"} \/ b.tag \in {"nan", "surd"} THEN FNaN
    ELSE IF a.tag = "inf" /\ b.tag = "inf"
         THEN IF a.num = b.num THEN a ELSE FNaN
    ELSE IF a.tag = "inf" THEN a
    ELSE IF b.tag = "inf" THEN b
    ELSE FNum(a.num * b.den + b.num * a.den, a.den * b.den)

FNeg(a) == IF a.tag = "nan" THEN a ELSE [a EXCEPT !.num = -a.num]
FSub(a, b) == FAdd(a, FNeg(b))

\* x < 0
FNegative(x) == x.tag # "nan" /\ x.num < 0

\* math.Abs(x) < e for a whole e: false for NaN and the infinities
FAbsLess(x, e) == x.tag = "num" /\ Abs(x.num) < e * x.den

\* math.IsInf(x, 0)
FIsInf(x) == x.tag = "inf"

\* colorspace.Point.Scale
PointScale(c, n) ==
    <<FMul(FNum(c[1], 1), n), FMul(FNum(c[2], 1), n), FMul(FNum(c[3], 1), n)>>

\* Film.Image, up to the tristimulus value it hands to cs.ConvertXYZ for each
\* pixel (the conversion and the 8-bit quantisation are applied to xyz alone):
\* the raster position, the sample count divided by, n and xyz.
Image(f) ==
    [i \in DOMAIN f.Pixels |->
        LET n == FRecip(f.Pixels[i].Samples)
        IN  [at |-> RasterCoords(f, i),
             divisor |-> f.Pixels[i].Samples,
             n |-> n,
             xyz |-> PointScale(f.Pixels[i].Color, n)]]

-----------------------------------------------------------------------------
(* camera.Film driven by its callers *)

Contributions == {<<1, 2, 3>>, <<0, 1, 0>>}

InitFilm ==
    /\ fpc = "new"
    /\ fargs \in ((0 - 1)..MaxFilmDim) \X ((0 - 1)..MaxFilmDim)
    /\ ffilm = NoFilm
    /\ ftile = NoTile
    /\ fsum = <<>>
    /\ tsum = <<>>
    /\ fimg = <<>>
    /\ fops = 0

\* film := camera.NewFilm(width, height)
CallNewFilm ==
    /\ fpc = "new"
    /\ LET r == NewFilm(fargs[1], fargs[2])
       IN  /\ fpc' = IF r.panic THEN "panicked" ELSE "ready"
           /\ ffilm' = r.film
           /\ fsum' = [i \in DOMAIN r.film.Pixels |-> ZeroPixel]
    /\ UNCHANGED <<fargs, ftile, tsum, fimg, fops>>
    /\ UNCHANGED notFilm

\* A tile's owner allocates its buffer: &FilmTile{make([]Pixel, size), offset}
CallNewTile(off, size) ==
    /\ fpc = "ready" /\ ftile = NoTile /\ fops < MaxOps
    /\ off >= 0 /\ size >= 1 /\ off + size <= SliceLen(ffilm.Pixels)
    /\ ftile' = [Offset |-> off, Pixels |-> MakePixels(size)]
    /\ tsum' = MakePixels(size)
    /\ fops' = fops + 1
    /\ UNCHANGED <<fpc, fargs, ffilm, fsum, fimg>>
    /\ UNCHANGED notFilm

\* tile.Pixels[i].AddColor(c)
CallAddColor(i, c) ==
    /\ fpc = "ready" /\ ftile # NoTile /\ fops < MaxOps
    /\ i \in DOMAIN ftile.Pixels
    /\ ftile' = [ftile EXCEPT !.Pixels[i] = AddColor(ftile.Pixels[i], c)]
    /\ tsum' = [tsum EXCEPT ![i] =
                   [Color |-> <<@.Color[1] + c[1], @.Color[2] + c[2],
                                @.Color[3] + c[3]>>,
                    Samples |-> @.Samples + 1]]
    /\ fops' = fops + 1
    /\ UNCHANGED <<fpc, fargs, ffilm, fsum, fimg>>
    /\ UNCHANGED notFilm

\* film.Merge(tile); the tile is dropped afterwards
CallMerge ==
    /\ fpc = "ready" /\ ftile # NoTile /\ fops < MaxOps
    /\ ffilm' = Merge(ffilm, ftile)
    /\ fsum' = [k \in DOMAIN fsum |->
                   IF (k - ftile.Offset) \in DOMAIN tsum
                   THEN LET t == tsum[k - ftile.Offset]
                        IN  [Color |-> <<fsum[k].Color[1] + t.Color[1],
                                         fsum[k].Color[2] + t.Color[2],
                                         fsum[k].Color[3] + t.Color[3]>>,
                             Samples |-> fsum[k].Samples + t.Samples]
                   ELSE fsum[k]]
    /\ ftile' = NoTile
    /\ tsum' = <<>>
    /\ fops' = fops + 1
    /\ UNCHANGED <<fpc, fargs, fimg>>
    /\ UNCHANGED notFilm

\* img := film.Image(cs)
CallImage ==
    /\ fpc = "ready"
    /\ fimg' = Image(ffilm)
    /\ UNCHANGED <<fpc, fargs, ffilm, ftile, fsum, tsum, fops>>
    /\ UNCHANGED notFilm

NextFilm ==
    \/ CallNewFilm
    \/ \E off \in 0..(MaxFilmDim * MaxFilmDim), size \in 1..MaxFilmDim :
           CallNewTile(off, size)
    \/ \E i \in 0..MaxFilmDim, c \in Contributions : CallAddColor(i, c)
    \/ CallMerge
    \/ CallImage

FilmInit == IdleRender /\ IdlePartition /\ InitFilm /\ IdleGeo /\ IdleCamera /\ IdleMetrics

SpecFilm == FilmInit /\ [][NextFilm]_vars

-----------------------------------------------------------------------------
(* Claims about the film *)

\* C6: after any sequence of AddColor and Merge calls, two merges over the
\* same pixel included, every film pixel's Color is the component-wise sum of
\* the contributions merged into it and its Samples their number.
C6_ColorIsSumOfContributions ==
    fpc = "ready" => \A i \in DOMAIN ffilm.Pixels : ffilm.Pixels[i] = fsum[i]

\* C7: Film.Image never divides by a zero sample count.
C7_ImageNeverDividesByZero ==
    \A i \in DOMAIN fimg : fimg[i].divisor # 0 /\ fimg[i].n.tag = "num"

\* C8: NewFilm panics, returning no film, whenever width < 1 or height < 1;
\* otherwise it returns a film of exactly width*height pixels, each with
\* zero Color and zero Samples.
C8_NewFilmFailsFast ==
    fpc # "new" =>
        IF fargs[1] < 1 \/ fargs[2] < 1
        THEN fpc = "panicked" /\ ffilm = NoFilm
        ELSE /\ fpc = "ready"
             /\ ffilm.Width = fargs[1] /\ ffilm.Height = fargs[2]
             /\ DOMAIN ffilm.Pixels = 0..(fargs[1] * fargs[2] - 1)
             /\ fops = 0 => \A i \in DOMAIN ffilm.Pixels :
                               ffilm.Pixels[i] = ZeroPixel

\* NewFilm has panicked on a call with a good width and a bad height.
C8_Witness == fpc = "panicked" /\ fargs[1] >= 1 /\ fargs[2] < 1

-----------------------------------------------------------------------------
(* pkg/geo: Vec, Unit, Ray, Mtx.MultVec, LookAt; camera.Perspective *)

\* geo's epsilon and the number 1.0, in grid steps
epsilon == StepsPerEpsilon
One == StepsPerOne

\* geo.Vec{x, y, z}
V(x, y, z) == <<FNum(x, 1), FNum(y, 1), FNum(z, 1)>>
YAxis == V(0, 1, 0)

\* Vec.Minus
Minus(a, b) == <<FSub(a[1], b[1]), FSub(a[2], b[2]), FSub(a[3], b[3])>>

\* Vec.Cross
Cross(a, b) ==
    <<FSub(FMul(a[2], b[3]), FMul(a[3], b[2])),
      FSub(FMul(a[3], b[1]), FMul(a[1], b[3])),
      FSub(FMul(a[1], b[2]), FMul(a[2], b[1]))>>

\* a.X*a.X + a.Y*a.Y + a.Z*a.Z, the radicand of Vec.Len
LenSquared(a) == FAdd(FAdd(FMul(a[1], a[1]), FMul(a[2], a[2])), FMul(a[3], a[3]))

ISqrt(n) == CHOOSE r \in 0..n : r * r <= n /\ (r + 1) * (r + 1) > n

\* n * x for n = 1.0 / a.Len(), given l2 = LenSquared(a)
TimesInvLen(x, l2) ==
    IF l2.tag # "num" \/ x.tag # "num" THEN FNaN
    ELSE IF l2.num = 0 THEN FMul(FInf(1), x)
    ELSE IF l2.den = 1 /\ x.den = 1
         THEN IF ISqrt(l2.num) * ISqrt(l2.num) = l2.num
              THEN FNum(x.num, ISqrt(l2.num))
              ELSE FSurd(x.num, l2.num)
         ELSE FSurd(x.num * l2.den, l2.num * l2.den * x.den * x.den)

\* Vec.Unit: the normalised vector and math.IsInf(n, 0) for n = 1.0 / a.Len()
Unit(a) ==
    LET l2 == LenSquared(a)
    IN  [unit |-> <<TimesInvLen(a[1], l2), TimesInvLen(a[2], l2),
                    TimesInvLen(a[3], l2)>>,
         ok |-> (l2.tag = "num" /\ l2.num = 0)]

\* NearZero with exact comparisons in place of the epsilon test.
NearZeroExact(a) ==
    /\ FAbsLess(a[1], 1) /\ FAbsLess(a[2], 1) /\ FAbsLess(a[3], 1)

\* Vec.NearZero
NearZero(a) ==
    /\ FAbsLess(a[1], epsilon) /\ FAbsLess(a[2], epsilon) /\ FAbsLess(a[3], epsilon)

NoRay == [Origin |-> <<>>, Dir |-> <<>>, invDir |-> <<>>, sign |-> <<>>]

\* geo.NewRay
NewRay(origin, dir) ==
    IF NearZero(dir)
    THEN [panic |-> TRUE, ray |-> NoRay]
    ELSE LET inv == <<FRecipF(dir[1]), FRecipF(dir[2]), FRecipF(dir[3])>>
         IN  [panic |-> FALSE,
              ray |-> [Origin |-> origin, Dir |-> dir, invDir |-> inv,
                       sign |-> [k \in 1..3 |->
                                    IF FNegative(inv[k]) THEN 1 ELSE 0]]]

\* geo.LookAt: the columns are the x, y and z axes and the camera position
LookAt(from, to, up) ==
    LET zaxis == Unit(Minus(from, to)).unit
        xaxis == Unit(Cross(up, zaxis)).unit
        yaxis == Unit(Cross(zaxis, xaxis)).unit
    IN  <<<<xaxis[1], yaxis[1], zaxis[1], from[1]>>,
          <<xaxis[2], yaxis[2], zaxis[2], from[2]>>,
          <<xaxis[3], yaxis[3], zaxis[3], from[3]>>,
          <<FNum(0, 1), FNum(0, 1), FNum(0, 1), FNum(1, 1)>>>>

\* geo.LookAt as it stands beside the Mtx type: log.Fatalln unless each Unit
\* call reports true; Unit.Cross here is the plain cross product.
LookAtFatal(from, to, up) ==
    LET z == Unit(Minus(from, to))
        x == Unit(Cross(up, z.unit))
        y == Unit(Cross(z.unit, x.unit))
    IN  IF ~z.ok \/ ~x.ok \/ ~y.ok
        THEN [fatal |-> TRUE, m |-> <<>>]
        ELSE [fatal |-> FALSE,
              m |-> <<<<x.unit[1], y.unit[1], z.unit[1], from[1]>>,
                      <<x.unit[2], y.unit[2], z.unit[2], from[2]>>,
                      <<x.unit[3], y.unit[3], z.unit[3], from[3]>>,
                      <<FNum(0, 1), FNum(0, 1), FNum(0, 1), FNum(1, 1)>>>>]

\* Mtx.MultVec
MultVec(a, v) ==
    [i \in 1..3 |->
        FAdd(FAdd(FMul(a[i][1], v[1]), FMul(a[i][2], v[2])), FMul(a[i][3], v[3]))]

\* Mtx.Mult with the operands of its inner loop exchanged.
MultTransposed(a, b) ==
    [i \in 1..4 |-> [j \in 1..4 |->
        FAdd(FAdd(FAdd(FAdd(FNum(0, 1), FMul(a[i][1], b[j][1])),
                       FMul(a[i][2], b[j][2])),
                  FMul(a[i][3], b[j][3])),
             FMul(a[i][4], b[j][4]))]]

\* Mtx.Mult: c := &Mtx{} is all zeros, then c[i][j] += a[i][k] * b[k][j]
\* for k = 0..3 in that order
Mult(a, b) ==
    [i \in 1..4 |-> [j \in 1..4 |->
        FAdd(FAdd(FAdd(FAdd(FNum(0, 1), FMul(a[i][1], b[1][j])),
                       FMul(a[i][2], b[2][j])),
                  FMul(a[i][3], b[3][j])),
             FMul(a[i][4], b[4][j]))]]

\* a / b : x/0 is an infinity of x's sign, 0/0 and Inf/Inf are NaN
FDiv(a, b) == FMul(a, FRecipF(b))

\* math.Abs(x) > math.Abs(y), for finite x and y
FAbsGreater(x, y) ==
    /\ x.tag = "num" /\ y.tag = "num"
    /\ Abs(x.num) * y.den > Abs(y.num) * x.den

\* x == 0
FIsZero(x) == x.tag = "num" /\ x.num = 0

\* geo.Identity
Identity ==
    [i \in 1..4 |-> [j \in 1..4 |-> IF i = j THEN FNum(1, 1) ELSE FNum(0, 1)]]

\* findPivot(h, k, m): the first row at or below h with the largest
\* |m[i][k]|; scan is its loop from row i on, with the best row so far.
RECURSIVE PivotScan(_, _, _, _)
PivotScan(m, k, i, pivot) ==
    IF i > 4 THEN pivot
    ELSE IF FAbsGreater(m[i][k], m[pivot][k])
         THEN PivotScan(m, k, i + 1, i)
         ELSE PivotScan(m, k, i + 1, pivot)

findPivot(h, k, m) == PivotScan(m, k, h + 1, h)

\* Mtx.Inv, forward substitution from pivot row h and column k (rows and
\* columns count from 1 here).
RECURSIVE ForwardSubstitute(_, _, _)
ForwardSubstitute(m, h, k) ==
    IF ~(h <= 4 /\ k <= 8) THEN m
    ELSE LET pivot == findPivot(h, k, m)
         IN  IF FIsZero(m[pivot][k])
             THEN ForwardSubstitute(m, h, k + 1)
             ELSE LET sw == [i \in 1..4 |->
                                IF i = h THEN m[pivot]
                                ELSE IF i = pivot THEN m[h] ELSE m[i]]
                      red == [i \in 1..4 |->
                                IF i <= h THEN sw[i]
                                ELSE LET f == FDiv(sw[i][k], sw[h][k])
                                     IN  [j \in 1..8 |->
                                            IF j < k THEN sw[i][j]
                                            ELSE IF j = k THEN FNum(0, 1)
                                            ELSE FSub(sw[i][j],
                                                      FMul(f, sw[h][j]))]]
                  IN  ForwardSubstitute(red, h + 1, k + 1)

\* Mtx.Inv, back substitution from row i up to the first row; divisors are
\* the values f = m[i][i] its rows were divided by, in the order used.
RECURSIVE BackSubstitute(_, _, _)
BackSubstitute(m, i, divisors) ==
    IF i < 1 THEN [m |-> m, divisors |-> divisors]
    ELSE LET f == m[i][i]
             row == [j \in 1..8 |-> FDiv(m[i][j], f)]
             nxt == [j \in 1..4 |->
                        IF j = i THEN row
                        ELSE IF j > i THEN m[j]
                        ELSE LET g == m[j][i]
                             IN  [k \in 1..8 |->
                                    FSub(m[j][k], FMul(g, row[k]))]]
         IN  BackSubstitute(nxt, i - 1, Append(divisors, f))

\* Mtx.Inv: the matrix it returns, with the divisors of its back substitution.
\* It has one return, the matrix, and no error result.
Inv(a) ==
    LET aug == [i \in 1..4 |->
                  [j \in 1..8 |-> IF j <= 4 THEN a[i][j] ELSE Identity[i][j - 4]]]
        r == BackSubstitute(ForwardSubstitute(aug, 1, 1), 4, <<>>)
    IN  [failed |-> FALSE,
         aInv |-> [i \in 1..4 |-> [j \in 1..4 |-> r.m[i][j + 4]]],
         divisors |-> r.divisors]

\* camera.NewPerspective(1, 90).MoveTo(eye).PointAt(target): each of the
\* three recomputes camToWorld from the eye and target it then holds.
Perspective(eye, target) ==
    [aspectRatio |-> 1, tanHalfFOV |-> 1, eye |-> eye, target |-> target,
     camToWorld |-> LookAt(eye, target, YAxis)]

\* Perspective.Ray(u, v) for u = u2/2 and v = v2/2
PerspectiveRay(c, u2, v2) ==
    LET p == V((u2 - 1) * c.aspectRatio * c.tanHalfFOV * One,
               (1 - v2) * c.tanHalfFOV * One,
               0 - One)
    IN  NewRay(c.eye, MultVec(c.camToWorld, p))

-----------------------------------------------------------------------------
(* pkg/geo applied to drawn inputs *)

Coords == (0 - MaxCoord)..MaxCoord
\* The origin and the points one unit along each axis, either way.
AxisPoints ==
    {<<x * One, y * One, z * One>> :
        <<x, y, z>> \in {t \in (-1..1) \X (-1..1) \X (-1..1) :
                            Abs(t[1]) + Abs(t[2]) + Abs(t[3]) <= 1}}
\* Camera poses whose viewing direction is zero or along an axis, so that
\* every normalised axis is a whole number or NaN.
Poses ==
    {ps \in AxisPoints \X AxisPoints :
        Cardinality({k \in 1..3 : ps[1][k] # ps[2][k]}) <= 1}

InitGeo == gop = "init" /\ gin = <<>> /\ gout = <<>>

\* u, ok := v.Unit()
CallUnit ==
    /\ gop = "init"
    /\ \E x \in Coords, y \in Coords, z \in Coords :
          /\ gin' = [v |-> <<x, y, z>>]
          /\ gout' = Unit(V(x, y, z))
    /\ gop' = "Unit"
    /\ UNCHANGED notGeo

\* ray := geo.NewRay(origin, dir)
CallNewRay ==
    /\ gop = "init"
    /\ \E o \in {<<0, 0, 0>>, <<One, 0, 0 - One>>},
          x \in Coords, y \in Coords, z \in Coords :
          /\ gin' = [origin |-> o, dir |-> <<x, y, z>>]
          /\ gout' = NewRay(V(o[1], o[2], o[3]), V(x, y, z))
    /\ gop' = "NewRay"
    /\ UNCHANGED notGeo

\* ray := cam.Ray(u, v) for a camera moved to eye and pointed at target
CallPerspectiveRay ==
    /\ gop = "init"
    /\ \E ps \in Poses, u2 \in 0..2, v2 \in 0..2 :
          LET eye == V(ps[1][1], ps[1][2], ps[1][3])
              target == V(ps[2][1], ps[2][2], ps[2][3])
          IN  /\ gin' = [eye |-> ps[1], target |-> ps[2], u2 |-> u2, v2 |-> v2]
              /\ gout' = PerspectiveRay(Perspective(eye, target), u2, v2)
    /\ gop' = "Ray"
    /\ UNCHANGED notGeo

\* geo.XAxis, geo.YAxis, geo.ZAxis
Axes == {<<1, 0, 0>>, <<0, 1, 0>>, <<0, 0, 1>>}

\* m := geo.LookAt(from, to, up): LookAt has one return, the matrix, and no
\* error result; fatal is what the variant that checks Unit's flag does.
CallLookAt ==
    /\ gop = "init"
    /\ \E ps \in Poses, up \in Axes :
          LET from == V(ps[1][1], ps[1][2], ps[1][3])
              to == V(ps[2][1], ps[2][2], ps[2][3])
          IN  /\ gin' = [from |-> ps[1], to |-> ps[2], up |-> up]
              /\ gout' = [failed |-> FALSE,
                          m |-> LookAt(from, to, V(up[1], up[2], up[3])),
                          fatal |-> LookAtFatal(from, to,
                                                V(up[1], up[2], up[3])).fatal]
    /\ gop' = "LookAt"
    /\ UNCHANGED notGeo

\* Rows the matrices handed to Inv are made of.
MtxRows ==
    {<<1, 0, 0, 0>>, <<0, 1, 0, 0>>, <<0, 0, 1, 0>>, <<0, 0, 0, 1>>,
     <<0, 0, 0, 0>>, <<2, 0, 0, One>>, <<1, 1, 0, 0>>}

\* aInv := a.Inv()
CallInv ==
    /\ gop = "init"
    /\ \E r1 \in MtxRows, r2 \in MtxRows, r3 \in MtxRows, r4 \in MtxRows :
          LET a == <<r1, r2, r3, r4>>
          IN  /\ gin' = [a |-> a]
              /\ gout' = Inv([i \in 1..4 |-> [j \in 1..4 |-> FNum(a[i][j], 1)]])
    /\ gop' = "Inv"
    /\ UNCHANGED notGeo

NextGeo ==
    \/ CallUnit
    \/ CallNewRay
    \/ CallPerspectiveRay
    \/ CallLookAt

GeoInit == IdleRender /\ IdlePartition /\ IdleFilm /\ InitGeo /\ IdleCamera /\ IdleMetrics

SpecGeo == GeoInit /\ [][NextGeo]_vars

\* The operands of TestMtx_Mult.
TestA == <<<<5, 7, 9, 10>>, <<2, 3, 3, 8>>, <<8, 10, 2, 3>>, <<3, 3, 4, 8>>>>
TestB == <<<<3, 10, 12, 18>>, <<12, 1, 4, 9>>, <<9, 10, 12, 2>>, <<3, 12, 4, 10>>>>

\* Rows of the other matrices handed to Mult.
MultRows == {<<1, 2, 0, -1>>, <<0, 1, MaxCoord, 0>>, <<-2, 0, 1, 1>>}

\* The whole-number matrices handed to Mult.
MultMatrices ==
    {<<r1, r2, r3, r4>> : r1 \in MultRows, r2 \in MultRows, r3 \in MultRows,
                          r4 \in MultRows}
    \cup {TestA, TestB,
          <<<<1, 0, 0, 0>>, <<0, 1, 0, 0>>, <<0, 0, 1, 0>>, <<0, 0, 0, 1>>>>}

\* The Mtx of whole numbers m.
MtxOf(m) == [i \in 1..4 |-> [j \in 1..4 |-> FNum(m[i][j], 1)]]

\* c := a.Mult(b); a and b are read again after the call (Mult assigns
\* to c only, which it allocates)
CallMult ==
    /\ gop = "init"
    /\ \E a \in MultMatrices, b \in MultMatrices :
          /\ gin' = [a |-> a, b |-> b]
          /\ gout' = [c |-> Mult(MtxOf(a), MtxOf(b)), a |-> MtxOf(a), b |-> MtxOf(b)]
    /\ gop' = "Mult"
    /\ UNCHANGED notGeo

NextMtx ==
    \/ CallInv
    \/ CallMult

MtxInit == IdleRender /\ IdlePartition /\ IdleFilm /\ InitGeo /\ IdleCamera /\ IdleMetrics

SpecMtx == MtxInit /\ [][NextMtx]_vars

-----------------------------------------------------------------------------
(* camera.Perspective driven by its callers *)

MaxCamOps == 4

\* Perspective.recalculateLookMatrix
recalculateLookMatrix(c) ==
    [c EXCEPT !.camToWorld = LookAt(c.eye, c.target, YAxis)]

\* camera.NewPerspective(1, 90): at the origin, facing down the negative z axis
NewPerspective ==
    recalculateLookMatrix(
        [aspectRatio |-> 1, tanHalfFOV |-> 1, eye |-> V(0, 0, 0),
         target |-> V(0, 0, 0 - One), camToWorld |-> <<>>])

\* MoveTo that leaves the look matrix as it was.
MoveToLazy(c, location) == [c EXCEPT !.eye = location]

\* Perspective.MoveTo
MoveTo(c, location) == recalculateLookMatrix([c EXCEPT !.eye = location])

\* Perspective.PointAt
PointAt(c, location) == recalculateLookMatrix([c EXCEPT !.target = location])

InitCamera == cam = NoCamera /\ cop = "none" /\ cray = <<>> /\ cops = 0

\* cam := camera.NewPerspective(1, 90)
CamNew ==
    /\ cop = "none"
    /\ cam' = NewPerspective
    /\ cop' = "New"
    /\ cops' = cops + 1
    /\ UNCHANGED cray
    /\ UNCHANGED notCamera

\* cam.MoveTo(location), for a location that keeps the view along an axis
CamMoveTo ==
    /\ cop # "none"
    /\ cops < MaxCamOps
    /\ \E loc \in AxisPoints :
          /\ \E ps \in Poses : ps[1] = loc /\ V(ps[2][1], ps[2][2], ps[2][3]) = cam.target
          /\ cam' = MoveTo(cam, V(loc[1], loc[2], loc[3]))
    /\ cop' = "MoveTo"
    /\ cops' = cops + 1
    /\ UNCHANGED cray
    /\ UNCHANGED notCamera

\* cam.PointAt(location), for a location that keeps the view along an axis
CamPointAt ==
    /\ cop # "none"
    /\ cops < MaxCamOps
    /\ \E loc \in AxisPoints :
          /\ \E ps \in Poses : ps[2] = loc /\ V(ps[1][1], ps[1][2], ps[1][3]) = cam.eye
          /\ cam' = PointAt(cam, V(loc[1], loc[2], loc[3]))
    /\ cop' = "PointAt"
    /\ cops' = cops + 1
    /\ UNCHANGED cray
    /\ UNCHANGED notCamera

\* ray := cam.Ray(u, v): read is the camToWorld the call multiplied by
CamRay ==
    /\ cop # "none"
    /\ cops < MaxCamOps
    /\ \E u2 \in 0..2, v2 \in 0..2 :
          cray' = [u2 |-> u2, v2 |-> v2, read |-> cam.camToWorld,
                   out |-> PerspectiveRay(cam, u2, v2)]
    /\ cop' = "Ray"
    /\ cops' = cops + 1
    /\ UNCHANGED cam
    /\ UNCHANGED notCamera

NextCamera ==
    \/ CamNew
    \/ CamMoveTo
    \/ CamPointAt
    \/ CamRay

CameraInit == IdleRender /\ IdlePartition /\ IdleFilm /\ IdleGeo /\ InitCamera /\ IdleMetrics

SpecCamera == CameraInit /\ [][NextCamera]_vars

-----------------------------------------------------------------------------
(* pkg/colorspace: RGB.ConvertXYZ *)

MaxXYZ == 3

\* x < y
FLess(x, y) ==
    IF x.tag \in {"nan", "surd"} \/ y.tag \in {"nan", "surd"} THEN FALSE
    ELSE IF x.tag = "inf" THEN x.num < 0 /\ ~(y.tag = "inf" /\ y.num < 0)
    ELSE IF y.tag = "inf" THEN y.num > 0
    ELSE x.num * y.den < y.num * x.den

\* math.Min and math.Max: NaN if either argument is
FMin(x, y) ==
    IF x.tag = "nan" \/ y.tag = "nan" THEN FNaN ELSE IF FLess(y, x) THEN y ELSE x
FMax(x, y) ==
    IF x.tag = "nan" \/ y.tag = "nan" THEN FNaN ELSE IF FLess(x, y) THEN y ELSE x

\* An RGB value's gamma field applied to v: the identity for "linear" (SRGB's
\* own gamma is a power law above v = 0.0031308 and 12.92*v below).
Gamma(kind, v) == IF kind = "scaled" THEN FMul(FNum(323, 25), v) ELSE v

\* ConvertXYZ's first loop: rgb[i] = cs.gamma(sum over j of cs.m[i][j]*xyz[j])
GammaCorrected(cs, xyz) ==
    [i \in 1..3 |->
        Gamma(cs.gamma,
              FAdd(FAdd(FAdd(FNum(0, 1), FMul(cs.m[i][1], xyz[1])),
                        FMul(cs.m[i][2], xyz[2])),
                   FMul(cs.m[i][3], xyz[3])))]

\* The archived ConvertXYZ's desaturation, rgb.Shift(-1 * min) when min < 0
DesaturateByMagnitude(rgb) ==
    LET min == FMin(rgb[1], FMin(rgb[2], rgb[3]))
    IN  IF FLess(min, FNum(0, 1))
        THEN [i \in 1..3 |-> FSub(rgb[i], min)]
        ELSE rgb

\* ConvertXYZ, "if out of gamut, desaturate": rgb[i] += min when min < 0
Desaturate(rgb) ==
    LET min == FMin(rgb[1], FMin(rgb[2], rgb[3]))
    IN  IF FLess(min, FNum(0, 1))
        THEN [i \in 1..3 |-> FAdd(rgb[i], min)]
        ELSE rgb

\* ConvertXYZ, "clamp max value": rgb[i] = v / max when max > 1
ClampMax(rgb) ==
    LET max == FMax(rgb[1], FMax(rgb[2], rgb[3]))
    IN  IF FLess(FNum(1, 1), max)
        THEN [i \in 1..3 |-> FDiv(rgb[i], max)]
        ELSE rgb

\* RGB.ConvertXYZ
ConvertXYZ(cs, xyz) == ClampMax(Desaturate(GammaCorrected(cs, xyz)))

\* RGB values with whole-number matrices: the identity, and SRGB's matrix
\* rounded to whole numbers (it keeps the signs of every row).
ColorSpaces ==
    {[m |-> <<V(1, 0, 0), V(0, 1, 0), V(0, 0, 1)>>, gamma |-> "linear"],
     [m |-> <<V(3, -2, 0), V(-1, 2, 0), V(0, 0, 1)>>, gamma |-> "linear"],
     [m |-> <<V(3, -2, 0), V(-1, 2, 0), V(0, 0, 1)>>, gamma |-> "scaled"]}

\* rgb := cs.ConvertXYZ(xyz)
CallConvertXYZ ==
    /\ gop = "init"
    /\ \E cs \in ColorSpaces, x \in 0..MaxXYZ, y \in 0..MaxXYZ, z \in 0..MaxXYZ :
          /\ gin' = [cs |-> cs, xyz |-> <<x, y, z>>,
                     corrected |-> GammaCorrected(cs, V(x, y, z))]
          /\ gout' = ConvertXYZ(cs, V(x, y, z))
    /\ gop' = "ConvertXYZ"
    /\ UNCHANGED notGeo

NextColor == CallConvertXYZ

ColorInit == IdleRender /\ IdlePartition /\ IdleFilm /\ InitGeo /\ IdleCamera /\ IdleMetrics

SpecColor == ColorInit /\ [][NextColor]_vars

-----------------------------------------------------------------------------
(* pkg/spectrum: Distribution, Sampled, Discrete *)

MaxValue == 2
MaxOffset == 11

\* sampled.go and discrete.go: the wavelength grid
SampledMin == 380
SampledMax == 780
SampledStep == 5
NumSamples == ((SampledMax - SampledMin) \div SampledStep) + 1
DiscreteSize == NumSamples

\* sampledWavelengths, DiscreteWavelengths: the grid, indexed from 0
sampledWavelengths == [i \in 0..(NumSamples - 1) |-> SampledMin + i * SampledStep]
DiscreteWavelengths == sampledWavelengths

\* sort.Search(n, f): binary search for the smallest i in [0, n] with f[i]
RECURSIVE SortSearchLoop(_, _, _)
SortSearchLoop(f, i, j) ==
    IF i < j
    THEN LET h == (i + j) \div 2
         IN  IF ~f[h] THEN SortSearchLoop(f, h + 1, j)
                      ELSE SortSearchLoop(f, i, h)
    ELSE i

SortSearch(n, f) == SortSearchLoop(f, 0, n)

\* A Distribution value: a *Sampled or *Discrete (id is the pointer, table
\* the array) or Flat(value). NoTable stands for the absent array.
NoTable == <<>>
Flat(value) == [kind |-> "Flat", id |-> 0, table |-> NoTable, value |-> value]
SampledAt(id, table) == [kind |-> "Sampled", id |-> id, table |-> table, value |-> FNum(0, 1)]
DiscreteAt(id, table) == [kind |-> "Discrete", id |-> id, table |-> table, value |-> FNum(0, 1)]

\* Sampled.Lookup: idx is the array index used (-1 if none), panic an index
\* out of range
SampledLookup(st, wavelength) ==
    IF FLess(wavelength, FNum(SampledMin, 1)) \/ FLess(FNum(SampledMax, 1), wavelength)
    THEN [panic |-> FALSE, idx |-> -1, val |-> FNum(0, 1)]
    ELSE LET idx == SortSearch(NumSamples,
                               [i \in 0..(NumSamples - 1) |->
                                   ~FLess(FNum(sampledWavelengths[i], 1), wavelength)
                                   /\ wavelength.tag # "nan"])
         IN  IF idx \in DOMAIN st
             THEN [panic |-> FALSE, idx |-> idx, val |-> st[idx]]
             ELSE [panic |-> TRUE, idx |-> idx, val |-> FNaN]

\* Discrete.Lookup returning d[idx] in place of d[idx-1].
DiscreteLookupNoStepBack(d, wavelength) ==
    IF wavelength.tag # "nan" /\ ~FLess(FNum(SampledMin, 1), wavelength)
    THEN [panic |-> FALSE, idx |-> 0, val |-> d[0]]
    ELSE LET idx == SortSearch(DiscreteSize,
                               [i \in 0..(DiscreteSize - 1) |->
                                   FLess(wavelength, FNum(DiscreteWavelengths[i], 1))])
         IN  IF idx \in DOMAIN d
             THEN [panic |-> FALSE, idx |-> idx, val |-> d[idx]]
             ELSE [panic |-> TRUE, idx |-> idx, val |-> FNaN]

\* Discrete.Lookup
DiscreteLookup(d, wavelength) ==
    IF wavelength.tag # "nan" /\ ~FLess(FNum(SampledMin, 1), wavelength)
    THEN [panic |-> FALSE, idx |-> 0, val |-> d[0]]
    ELSE LET idx == SortSearch(DiscreteSize,
                               [i \in 0..(DiscreteSize - 1) |->
                                   FLess(wavelength, FNum(DiscreteWavelengths[i], 1))])
         IN  IF (idx - 1) \in DOMAIN d
             THEN [panic |-> FALSE, idx |-> idx - 1, val |-> d[idx - 1]]
             ELSE [panic |-> TRUE, idx |-> idx - 1, val |-> FNaN]

\* dist.Lookup(wavelength), by the dynamic type of dist
Lookup(dist, wavelength) ==
    IF dist.kind = "Sampled" THEN SampledLookup(dist.table, wavelength).val
    ELSE IF dist.kind = "Discrete" THEN DiscreteLookup(dist.table, wavelength).val
    ELSE dist.value

\* Sample without the test for an argument that is a *Sampled already.
SampleAlways(dist, fresh) ==
    [s |-> SampledAt(fresh, [i \in 0..(NumSamples - 1) |->
                                Lookup(dist, FNum(sampledWavelengths[i], 1))]),
     lookups |-> NumSamples]

\* spectrum.Sample: fresh is the pointer new(Sampled) would return, lookups
\* the number of dist.Lookup calls made
Sample(dist, fresh) ==
    IF dist.kind = "Sampled"
    THEN [s |-> dist, lookups |-> 0]
    ELSE [s |-> SampledAt(fresh, [i \in 0..(NumSamples - 1) |->
                                     Lookup(dist, FNum(sampledWavelengths[i], 1))]),
          lookups |-> NumSamples]

\* spectrum.Discretize
Discretize(dist, fresh) ==
    IF dist.kind = "Discrete"
    THEN [s |-> dist, lookups |-> 0]
    ELSE [s |-> DiscreteAt(fresh, [i \in 0..(DiscreteSize - 1) |->
                                      Lookup(dist, FNum(DiscreteWavelengths[i], 1))]),
          lookups |-> DiscreteSize]

\* Sampled.Lerp(t, n): m := 1 - n; lerp[i] = v*n + t[i]*m
SampledLerp(st, t, n) ==
    LET m == FSub(FNum(1, 1), n)
    IN  [i \in DOMAIN st |-> FAdd(FMul(st[i], n), FMul(t[i], m))]

\* Discrete.Lerp(other, t): s := 1 - t; lerp[i] = d[i]*s + other[i]*t
DiscreteLerp(d, other, t) ==
    LET sc == FSub(FNum(1, 1), t)
    IN  [i \in DOMAIN d |-> FAdd(FMul(d[i], sc), FMul(other[i], t))]

\* The sum of power[j] * weights[j] for j = lo..hi, summed by halves
RECURSIVE WeightedSum(_, _, _, _)
WeightedSum(power, weights, lo, hi) ==
    IF lo = hi THEN FMul(power[lo], weights[lo])
    ELSE LET mid == (lo + hi) \div 2
         IN  FAdd(WeightedSum(power, weights, lo, mid),
                  WeightedSum(power, weights, mid + 1, hi))

\* Colorspace.Convert of a linear conversion to XYZ: the distribution is
\* discretized over the grid, then X = sum of power[i] * cmf[1][i], and Y
\* and Z alike with cmf[2] and cmf[3], the tabulated matching functions.
ToXYZ(cmf, dist) ==
    LET power == Discretize(dist, 0).s.table
    IN  [k \in 1..3 |-> WeightedSum(power, cmf[k], 0, DiscreteSize - 1)]

\* The zero value of render.Pixel
EmptyPixel == [Color |-> [k \in 1..3 |-> FNum(0, 1)], Samples |-> 0]

\* Pixel.AddSample storing the converted sample in place of adding it.
AddSampleOverwrite(p, radiance, cmf) ==
    [Color |-> ToXYZ(cmf, radiance), Samples |-> p.Samples + 1]

\* Pixel.AddSample
AddSample(p, radiance, cmf) ==
    LET c == ToXYZ(cmf, radiance)
    IN  [Color |-> [k \in 1..3 |-> FAdd(p.Color[k], c[k])],
         Samples |-> p.Samples + 1]

-----------------------------------------------------------------------------
(* pkg/spectrum applied to drawn inputs *)

\* Arrays of NumSamples values: constant, rising with the index from a base,
\* and falling.
Tables ==
    {[i \in 0..(NumSamples - 1) |-> FNum(c, 1)] : c \in 0..MaxValue}
    \cup {[i \in 0..(NumSamples - 1) |-> FNum(c + i, 2)] : c \in 0..MaxValue}
    \cup {[i \in 0..(NumSamples - 1) |-> FNum(NumSamples - i, 1 + c)] : c \in 0..MaxValue}

Distributions ==
    {Flat(FNum(c, 1)) : c \in 0..MaxValue}
    \cup {SampledAt(1, t) : t \in Tables}
    \cup {DiscreteAt(1, t) : t \in Tables}

\* s := Sample(dist); again := Sample(s)
CallSample ==
    /\ gop = "init"
    /\ \E dist \in Distributions :
          LET first == Sample(dist, 2)
          IN  /\ gin' = [dist |-> dist]
              /\ gout' = [first |-> first, again |-> Sample(first.s, 3)]
    /\ gop' = "Sample"
    /\ UNCHANGED notGeo

\* d := Discretize(dist); again := Discretize(d)
CallDiscretize ==
    /\ gop = "init"
    /\ \E dist \in Distributions :
          LET first == Discretize(dist, 2)
          IN  /\ gin' = [dist |-> dist]
              /\ gout' = [first |-> first, again |-> Discretize(first.s, 3)]
    /\ gop' = "Discretize"
    /\ UNCHANGED notGeo

\* Wavelengths in half nanometres around both ends of the grid and around
\* a grid point inside it, the infinities and NaN.
Wavelengths ==
    {FNum(2 * c + o, 2) : c \in {SampledMin, 500, SampledMax},
                          o \in (0 - MaxOffset)..MaxOffset}
    \cup {FInf(1), FInf(-1), FNaN}

\* v := s.Lookup(wavelength) for a *Sampled s
CallSampledLookup ==
    /\ gop = "init"
    /\ \E t \in Tables, w \in Wavelengths :
          /\ gin' = [table |-> t, w |-> w]
          /\ gout' = SampledLookup(t, w)
    /\ gop' = "SampledLookup"
    /\ UNCHANGED notGeo

\* v := d.Lookup(wavelength) for a *Discrete d
CallDiscreteLookup ==
    /\ gop = "init"
    /\ \E t \in Tables, w \in Wavelengths :
          /\ gin' = [table |-> t, w |-> w]
          /\ gout' = DiscreteLookup(t, w)
    /\ gop' = "DiscreteLookup"
    /\ UNCHANGED notGeo

\* Interpolation parameters, in halves, from below 0 to above 1.
LerpParameters == {FNum(k, 2) : k \in (0 - 1)..(MaxValue + 1)}

\* l := a.Lerp(b, t) for two *Sampled or two *Discrete
CallLerp ==
    /\ gop = "init"
    /\ \E kind \in {"Sampled", "Discrete"}, a \in Tables, b \in Tables,
          t \in LerpParameters :
          /\ gin' = [kind |-> kind, a |-> a, b |-> b, t |-> t]
          /\ gout' = IF kind = "Sampled" THEN SampledLerp(a, b, t)
                                         ELSE DiscreteLerp(a, b, t)
    /\ gop' = "Lerp"
    /\ UNCHANGED notGeo

\* Matching-function tables of two linear conversions: X, Y and Z weigh
\* the grid by arrays that rise, fall, are constant or peak inside the grid.
MatchingFunctions ==
    {<<[i \in 0..(NumSamples - 1) |-> FNum(i, 2)],
       [i \in 0..(NumSamples - 1) |-> FNum(1, 1)],
       [i \in 0..(NumSamples - 1) |-> FNum(NumSamples - i, 3)]>>,
     <<[i \in 0..(NumSamples - 1) |-> FNum(i * (NumSamples - i), 1)],
       [i \in 0..(NumSamples - 1) |-> FNum(i * i, 3)],
       [i \in 0..(NumSamples - 1) |-> FNum(1 - i, 2)]>>}

\* p := Pixel{}; p.AddSample(d1, cs); p.AddSample(d2, cs), against
\* cs.Convert(Discretize(d1).Lerp(Discretize(d2), 0.5))
CallAddSample ==
    /\ gop = "init"
    /\ \E d1 \in Distributions, d2 \in Distributions, cmf \in MatchingFunctions :
          LET p == AddSample(AddSample(EmptyPixel, d1, cmf), d2, cmf)
              lerp == DiscreteLerp(Discretize(d1, 2).s.table, Discretize(d2, 3).s.table,
                                   FNum(1, 2))
          IN  /\ gin' = [d1 |-> d1, d2 |-> d2, cmf |-> cmf]
              /\ gout' = [p |-> p, direct |-> ToXYZ(cmf, DiscreteAt(4, lerp))]
    /\ gop' = "AddSample"
    /\ UNCHANGED notGeo

NextPixel == CallAddSample

PixelInit == IdleRender /\ IdlePartition /\ IdleFilm /\ InitGeo /\ IdleCamera /\ IdleMetrics

SpecPixel == PixelInit /\ [][NextPixel]_vars

NextSpectrum ==
    \/ CallSample
    \/ CallDiscretize
    \/ CallSampledLookup
    \/ CallDiscreteLookup
    \/ CallLerp

SpectrumInit == IdleRender /\ IdlePartition /\ IdleFilm /\ InitGeo /\ IdleCamera /\ IdleMetrics

SpecSpectrum == SpectrumInit /\ [][NextSpectrum]_vars

-----------------------------------------------------------------------------
(* pkg/util SolveQuadratic; shapes: Sphere, Triangle *)

MaxRadius == 2

\* Whether a whole number is a square
IsSquare(n) == n >= 0 /\ ISqrt(n) * ISqrt(n) = n

\* math.Sqrt: NaN below zero; an irrational root of p/q is p / sqrt(p*q)
FSqrt(x) ==
    IF x.tag = "inf" THEN (IF x.num > 0 THEN x ELSE FNaN)
    ELSE IF x.tag # "num" \/ x.num < 0 THEN FNaN
    ELSE IF IsSquare(x.num) /\ IsSquare(x.den)
         THEN FNum(ISqrt(x.num), ISqrt(x.den))
         ELSE FSurd(x.num, x.num * x.den)

\* util.Sign
Sign(n) ==
    IF FLess(n, FNum(0, 1)) THEN FNum(-1, 1)
    ELSE IF FLess(FNum(0, 1), n) THEN FNum(1, 1)
    ELSE FNum(0, 1)

\* util.SolveQuadratic
SolveQuadratic(a, b, c) ==
    LET disc == FSub(FMul(b, b), FMul(FMul(FNum(4, 1), a), c))
    IN  IF FLess(disc, FNum(0, 1))
        THEN [r0 |-> FNum(-1, 1), r1 |-> FNum(-1, 1), found |-> FALSE]
        ELSE IF FIsZero(disc)
        THEN LET r == FDiv(FNeg(b), FMul(FNum(2, 1), a))
             IN  [r0 |-> r, r1 |-> r, found |-> TRUE]
        ELSE LET q == FMul(FNum(-1, 2), FAdd(b, FMul(Sign(b), FSqrt(disc))))
                 r0 == FDiv(q, a)
                 r1 == FDiv(c, q)
             IN  IF FLess(r1, r0)
                 THEN [r0 |-> r1, r1 |-> r0, found |-> TRUE]
                 ELSE [r0 |-> r0, r1 |-> r1, found |-> TRUE]

\* Vec.Dot
Dot(a, b) == FAdd(FAdd(FMul(a[1], b[1]), FMul(a[2], b[2])), FMul(a[3], b[3]))

\* The coefficients Sphere.Intersect hands to SolveQuadratic
SphereQuadratic(sph, ray) ==
    LET L == Minus(ray.Origin, sph.Center)
    IN  [a |-> Dot(ray.Dir, ray.Dir),
         b |-> FMul(FNum(2, 1), Dot(L, ray.Dir)),
         c |-> FSub(Dot(L, L), FMul(sph.Radius, sph.Radius))]

\* Sphere.Intersect
SphereIntersect(sph, ray) ==
    LET k == SphereQuadratic(sph, ray)
        sol == SolveQuadratic(k.a, k.b, k.c)
    IN  IF ~sol.found THEN FNum(-1, 1)
        ELSE IF FLess(sol.r0, FNum(0, 1)) THEN sol.r1
        ELSE sol.r0

\* Vec.Plus, Vec.Scale, Vec.Reverse
\* Sphere.Normal: logged tells that it printed "invalid sphere normal!"
\* and returned geo.YAxis
SphereNormal(sph, point) ==
    LET u == Unit(Minus(point, sph.Center))
    IN  IF ~u.ok THEN [n |-> YAxis, logged |-> TRUE]
        ELSE [n |-> u.unit, logged |-> FALSE]

Plus(a, b) == <<FAdd(a[1], b[1]), FAdd(a[2], b[2]), FAdd(a[3], b[3])>>
Scale(a, t) == <<FMul(t, a[1]), FMul(t, a[2]), FMul(t, a[3])>>
Reverse(a) == <<FNeg(a[1]), FNeg(a[2]), FNeg(a[3])>>

\* 1.0 / 3.0
OneThird == FNum(1, 3)

\* NewTriangle with edge2 running from p1.
NewTriangleFromP1(p1, p2, p3) ==
    [p1 |-> p1, p2 |-> p2, p3 |-> p3,
     edge1 |-> Minus(p2, p1), edge2 |-> Minus(p3, p1),
     normal |-> Unit(Cross(Minus(p2, p1), Minus(p3, p1))).unit,
     centroid |-> Scale(Plus(Plus(p1, p2), p3), OneThird)]

\* shape.NewTriangle
NewTriangle(p1, p2, p3) ==
    [p1 |-> p1, p2 |-> p2, p3 |-> p3,
     edge1 |-> Minus(p2, p1), edge2 |-> Minus(p3, p2),
     normal |-> Unit(Cross(Minus(p2, p1), Minus(p3, p2))).unit,
     centroid |-> Scale(Plus(Plus(p1, p2), p3), OneThird)]

\* a > -0.0001 && a < 0.0001, for a triple product a of lengths in grid steps
NearlyParallel(a) ==
    a.tag = "num" /\ Abs(a.num) * 10000 < One * One * One * a.den

\* x < y for a computed x and a constant y. The values here are exact, the
\* float64 x carries a rounding error whose sign (err: -1, 0 or 1) depends on
\* the operands and, as Go may fuse floating-point operations, on the build:
\* it decides the comparison when the exact values are equal.
LessRounded(x, err, y) == FLess(x, y) \/ (x = y /\ err < 0)
GreaterRounded(x, err, y) == FLess(y, x) \/ (x = y /\ err > 0)

\* Triangle.Intersect; errU and errV are the signs of the rounding errors of
\* u and v, errU + errV that of u + v
TriangleIntersect(tri, ray, errU, errV) ==
    LET h == Cross(ray.Dir, tri.edge2)
        a == Dot(h, tri.edge1)
        f == FDiv(FNum(1, 1), a)
        st == Minus(ray.Origin, tri.p1)
        u == FMul(f, Dot(st, h))
        q == Cross(st, tri.edge1)
        v == FMul(f, Dot(q, ray.Dir))
    IN  IF NearlyParallel(a) THEN FNum(-1, 1)
        ELSE IF LessRounded(u, errU, FNum(0, 1))
                \/ GreaterRounded(u, errU, FNum(1, 1)) THEN FNum(-1, 1)
        ELSE IF LessRounded(v, errV, FNum(0, 1))
                \/ GreaterRounded(FAdd(u, v), errU + errV, FNum(1, 1))
             THEN FNum(-1, 1)
        ELSE FMul(f, Dot(q, tri.edge2))

\* rayColor's loop without the comparison with the closest hit so far.
RECURSIVE RayColorLoopAnyHit(_, _, _, _)
RayColorLoopAnyHit(ts, i, tInt, sInt) ==
    IF i > Len(ts) THEN [tInt |-> tInt, sInt |-> sInt]
    ELSE IF FLess(FNum(0, 1), ts[i])
         THEN RayColorLoopAnyHit(ts, i + 1, ts[i], i)
         ELSE RayColorLoopAnyHit(ts, i + 1, tInt, sInt)

\* rayColor's loop over the scene from shape i on: ts[i] is what
\* scene[i].Intersect(ray) returns, sInt the index of the shape kept (0: nil)
RECURSIVE RayColorLoop(_, _, _, _)
RayColorLoop(ts, i, tInt, sInt) ==
    IF i > Len(ts) THEN [tInt |-> tInt, sInt |-> sInt]
    ELSE IF FLess(FNum(0, 1), ts[i]) /\ FLess(ts[i], tInt)
         THEN RayColorLoop(ts, i + 1, ts[i], i)
         ELSE RayColorLoop(ts, i + 1, tInt, sInt)

\* rayColor, up to the choice it shades by: the normal of shape sInt at
\* ray.At(tInt), or the background when tInt is still infinite
rayColor(ts) ==
    LET r == RayColorLoop(ts, 1, FInf(1), 0)
    IN  IF ~FIsInf(r.tInt)
        THEN [background |-> FALSE, sInt |-> r.sInt, tInt |-> r.tInt]
        ELSE [background |-> TRUE, sInt |-> 0, tInt |-> r.tInt]

-----------------------------------------------------------------------------
(* Film.PixelAt and Film.RasterCoords applied to drawn positions *)

MaxRaster == 4

\* idx, _ := f.PixelAt(x, y); f.RasterCoords(idx), for raster coordinates
\* inside the film (back is <<>> when PixelAt panicked)
CallPixelAt ==
    /\ gop = "init"
    /\ \E w \in 1..MaxRaster, h \in 1..MaxRaster :
          \E x \in 0..(w - 1), y \in 0..(h - 1) :
              LET f == NewFilm(w, h).film
                  at == PixelAt(f, x, y)
              IN  /\ gin' = [w |-> w, h |-> h, x |-> x, y |-> y]
                  /\ gout' = [pxIdx |-> at.pxIdx, panic |-> at.panic,
                              back |-> IF at.panic THEN <<>>
                                       ELSE RasterCoords(f, at.pxIdx)]
    /\ gop' = "PixelAt"
    /\ UNCHANGED notGeo

\* x, y := f.RasterCoords(i); f.PixelAt(x, y), for an index inside the film
CallRasterCoords ==
    /\ gop = "init"
    /\ \E w \in 1..MaxRaster, h \in 1..MaxRaster :
          \E i \in 0..(w * h - 1) :
              LET f == NewFilm(w, h).film
                  rc == RasterCoords(f, i)
                  at == PixelAt(f, rc[1], rc[2])
              IN  /\ gin' = [w |-> w, h |-> h, i |-> i]
                  /\ gout' = [rc |-> rc, pxIdx |-> at.pxIdx, panic |-> at.panic]
    /\ gop' = "RasterCoords"
    /\ UNCHANGED notGeo

NextRaster ==
    \/ CallPixelAt
    \/ CallRasterCoords

RasterInit == IdleRender /\ IdlePartition /\ IdleFilm /\ InitGeo /\ IdleCamera /\ IdleMetrics

SpecRaster == RasterInit /\ [][NextRaster]_vars

-----------------------------------------------------------------------------
(* util.SolveQuadratic applied to drawn coefficients *)

MaxCoef == 4

\* r0, r1, found := util.SolveQuadratic(a, b, c) for whole coefficients,
\* a # 0, whose quadratic has no irrational root
CallSolveQuadratic ==
    /\ gop = "init"
    /\ \E a \in (0 - MaxCoef)..MaxCoef, b \in (0 - MaxCoef)..MaxCoef,
          c \in (0 - MaxCoef)..MaxCoef :
          /\ a # 0
          /\ b * b - 4 * a * c < 0 \/ IsSquare(b * b - 4 * a * c)
          /\ gin' = [a |-> a, b |-> b, c |-> c]
          /\ gout' = SolveQuadratic(FNum(a, 1), FNum(b, 1), FNum(c, 1))
    /\ gop' = "SolveQuadratic"
    /\ UNCHANGED notGeo

NextQuadratic == CallSolveQuadratic

QuadraticInit == IdleRender /\ IdlePartition /\ IdleFilm /\ InitGeo /\ IdleCamera /\ IdleMetrics

SpecQuadratic == QuadraticInit /\ [][NextQuadratic]_vars

-----------------------------------------------------------------------------
(* rayColor applied to drawn scenes *)

MaxScene == 3

\* What a shape's Intersect returns for the ray: a miss (negative), zero,
\* distances in halves up to MaxScene, NaN.
Distances ==
    {FNum(-1, 1), FNaN} \cup {FNum(k, 2) : k \in 0..(2 * MaxScene)}

\* c := rayColor(ray, scene) for a scene of up to MaxScene shapes
CallRayColor ==
    /\ gop = "init"
    /\ \E n \in 0..MaxScene : \E ts \in [1..n -> Distances] :
          /\ gin' = [ts |-> ts]
          /\ gout' = rayColor(ts)
    /\ gop' = "rayColor"
    /\ UNCHANGED notGeo

NextScene == CallRayColor

SceneInit == IdleRender /\ IdlePartition /\ IdleFilm /\ InitGeo /\ IdleCamera /\ IdleMetrics

SpecScene == SceneInit /\ [][NextScene]_vars

-----------------------------------------------------------------------------
(* shapes applied to drawn rays *)

MaxTri == 2

\* The unit vectors along the axes, either way.
AxisDirections ==
    {<<1, 0, 0>>, <<-1, 0, 0>>, <<0, 1, 0>>, <<0, -1, 0>>, <<0, 0, 1>>, <<0, 0, -1>>}

\* t := sphere.Intersect(ray), for a sphere at the origin of radius r and a
\* ray from (x, y, z) along an axis (all lengths in grid steps) whose
\* quadratic has no irrational root
CallSphereIntersect ==
    /\ gop = "init"
    /\ \E r \in 1..MaxRadius, x \in Coords, y \in Coords, z \in Coords,
          d \in AxisDirections :
          LET sph == [Center |-> V(0, 0, 0), Radius |-> FNum(r * One, 1)]
              ray == NewRay(V(x * One, y * One, z * One),
                            V(d[1] * One, d[2] * One, d[3] * One)).ray
              k == SphereQuadratic(sph, ray)
              disc == k.b.num * k.b.num - 4 * k.a.num * k.c.num
          IN  /\ disc < 0 \/ IsSquare(disc)
              /\ gin' = [radius |-> r, origin |-> <<x, y, z>>, dir |-> d,
                         a |-> k.a.num, b |-> k.b.num, c |-> k.c.num]
              /\ gout' = [t |-> SphereIntersect(sph, ray)]
    /\ gop' = "SphereIntersect"
    /\ UNCHANGED notGeo

\* Centers of the spheres asked for a normal.
Centers == {<<0, 0, 0>>, <<1, 0, -1>>}

\* n := sphere.Normal(point), positions in grid steps
CallSphereNormal ==
    /\ gop = "init"
    /\ \E c \in Centers, x \in Coords, y \in Coords, z \in Coords :
          LET sph == [Center |-> V(c[1] * One, c[2] * One, c[3] * One),
                      Radius |-> FNum(One, 1)]
          IN  /\ gin' = [center |-> <<c[1] * One, c[2] * One, c[3] * One>>,
                         point |-> <<x * One, y * One, z * One>>]
              /\ gout' = SphereNormal(sph, V(x * One, y * One, z * One))
    /\ gop' = "SphereNormal"
    /\ UNCHANGED notGeo

\* Edge vectors of the drawn triangles, which lie in the plane z = 0.
TriEdges == ((-1..1) \X (-1..1)) \ {<<0, 0>>}
\* Coordinates of their first vertex.
TriCoords == {0 - MaxTri, 0, MaxTri}

\* t := tri.Intersect(ray) for tri := NewTriangle(p1, p2, p3) and a ray that
\* starts d above the centroid along the normal; it points back at the
\* centroid (dir = 0) or along an axis of the triangle's plane (dir = 1..4).
\* The centroid has coordinates in thirds, which float64 rounds.
CallTriangleIntersect ==
    /\ gop = "init"
    /\ \E x \in TriCoords, y \in TriCoords, e \in TriEdges, g \in TriEdges,
          d \in 1..MaxRadius, dir \in 0..4, errU \in -1..1, errV \in -1..1 :
          LET p1 == V(x * One, y * One, 0)
              p2 == V((x + e[1]) * One, (y + e[2]) * One, 0)
              p3 == V((x + g[1]) * One, (y + g[2]) * One, 0)
              tri == NewTriangle(p1, p2, p3)
              origin == Plus(tri.centroid, Scale(tri.normal, FNum(d * One, 1)))
              toward == IF dir = 0 THEN Scale(Reverse(tri.normal), FNum(One, 1))
                        ELSE IF dir = 1 THEN V(One, 0, 0)
                        ELSE IF dir = 2 THEN V(0 - One, 0, 0)
                        ELSE IF dir = 3 THEN V(0, One, 0)
                        ELSE V(0, 0 - One, 0)
          IN  /\ e[1] * g[2] - e[2] * g[1] # 0
              /\ gin' = [p1 |-> <<x, y>>, e |-> e, g |-> g, d |-> d, dir |-> dir,
                         errU |-> errU, errV |-> errV]
              /\ gout' = [t |-> TriangleIntersect(tri, NewRay(origin, toward).ray,
                                                  errU, errV)]
    /\ gop' = "TriangleIntersect"
    /\ UNCHANGED notGeo

NextShape ==
    \/ CallSphereIntersect
    \/ CallSphereNormal
    \/ CallTriangleIntersect

ShapeInit == IdleRender /\ IdlePartition /\ IdleFilm /\ InitGeo /\ IdleCamera /\ IdleMetrics

SpecShape == ShapeInit /\ [][NextShape]_vars

-----------------------------------------------------------------------------
(* Claims about rays and vectors *)

\* Every component is a number of absolute value below epsilon.
AllBelowEpsilon(d) ==
    \A k \in 1..3 :
        /\ d[k].tag = "num"
        /\ d[k].num < epsilon * d[k].den
        /\ d[k].num > (0 - epsilon) * d[k].den

\* C9: NewRay panics, returning no ray, whenever every component of dir is
\* below epsilon in absolute value; so every ray NewRay or Perspective.Ray
\* returns has a direction that is not the (near-)zero vector.
C9_NoRayWithZeroDirection ==
    /\ gop = "NewRay" =>
          /\ AllBelowEpsilon(V(gin.dir[1], gin.dir[2], gin.dir[3]))
                => (gout.panic /\ gout.ray = NoRay)
          /\ ~gout.panic => ~AllBelowEpsilon(gout.ray.Dir)
    /\ gop = "Ray" => (~gout.panic => ~AllBelowEpsilon(gout.ray.Dir))

\* NewRay has panicked on a direction that is below epsilon but not zero.
C9_Witness ==
    /\ gop = "NewRay"
    /\ gout.panic
    /\ gin.dir # <<0, 0, 0>>

\* C10: Unit's flag is true for every vector of non-zero length and false
\* for a zero-length one, so that a result used only when the flag is true
\* has no Inf or NaN component.
C10_UnitFlagMeansValid ==
    gop = "Unit" =>
        /\ gout.ok <=> (gin.v # <<0, 0, 0>>)
        /\ gout.ok => \A k \in 1..3 : gout.unit[k].tag \in {"num", "surd"}

-----------------------------------------------------------------------------
(* Claims about LookAt *)

\* from - to is the zero vector, or up is parallel to it.
DegenerateLook(from, to, up) ==
    LET d == <<from[1] - to[1], from[2] - to[2], from[3] - to[3]>>
    IN  /\ up[2] * d[3] - up[3] * d[2] = 0
        /\ up[3] * d[1] - up[1] * d[3] = 0
        /\ up[1] * d[2] - up[2] * d[1] = 0

\* C11: LookAt fails exactly when from - to is zero or up is parallel to
\* from - to, and a matrix it returns has no NaN or Inf entry in its basis.
C11_LookAtFailsOnDegenerate ==
    gop = "LookAt" =>
        /\ gout.failed <=> DegenerateLook(gin.from, gin.to, gin.up)
        /\ ~gout.failed =>
              \A i \in 1..3, j \in 1..3 : gout.m[i][j].tag = "num"

-----------------------------------------------------------------------------
(* Claims about Mtx.Inv *)

\* The determinant of a whole-number matrix, by expansion along the first row.
\* C21: a.Mult(b) is the row-by-column product of a and b,
\* c[i][j] = a[i][1]*b[1][j] + ... + a[i][4]*b[4][j], for matrices of whole
\* numbers; a and b are what they were; Identity.Mult(b) = b and
\* a.Mult(Identity) = a.
C21_MultIsMatrixProduct ==
    gop = "Mult" =>
        /\ \A i \in 1..4, j \in 1..4 :
              gout.c[i][j] =
                  FNum(gin.a[i][1] * gin.b[1][j] + gin.a[i][2] * gin.b[2][j]
                       + gin.a[i][3] * gin.b[3][j] + gin.a[i][4] * gin.b[4][j], 1)
        /\ gout.a = MtxOf(gin.a)
        /\ gout.b = MtxOf(gin.b)
        /\ gout.a = Identity => gout.c = gout.b
        /\ gout.b = Identity => gout.c = gout.a

\* TestMtx_Mult's product, and each operand once multiplied by Identity
C21_Witness ==
    /\ gop = "Mult"
    /\ gin.a = TestA
    /\ gin.b = TestB
    /\ gout.c = MtxOf(<<<<210, 267, 236, 271>>, <<93, 149, 104, 149>>,
                        <<171, 146, 172, 268>>, <<105, 169, 128, 169>>>>)

RECURSIVE Det(_)
Det(a) ==
    IF Len(a) = 1 THEN a[1][1]
    ELSE LET minor(c) ==
                 [i \in 1..(Len(a) - 1) |->
                     [j \in 1..(Len(a) - 1) |->
                         a[i + 1][IF j < c THEN j ELSE j + 1]]]
             term(c) == (IF c % 2 = 1 THEN 1 ELSE -1) * a[1][c] * Det(minor(c))
         IN  IF Len(a) = 2 THEN term(1) + term(2)
             ELSE IF Len(a) = 3 THEN term(1) + term(2) + term(3)
             ELSE term(1) + term(2) + term(3) + term(4)

\* C12: Inv of a singular matrix reports failure, and Inv never divides by a
\* zero pivot.
C12_InvFailsOnSingular ==
    gop = "Inv" =>
        /\ Det(gin.a) = 0 => gout.failed
        /\ ~gout.failed => \A n \in 1..Len(gout.divisors) :
                              ~FIsZero(gout.divisors[n])

-----------------------------------------------------------------------------
(* Claims about the camera's cached transform *)

\* C13: once constructed, and after every MoveTo and PointAt, the camera's
\* camToWorld is LookAt(eye, target, YAxis) of its current eye and target,
\* and the transform a Ray call reads is that of the current eye and target.
C13_CameraCacheIsFresh ==
    /\ cop # "none" => cam.camToWorld = LookAt(cam.eye, cam.target, YAxis)
    /\ cop = "Ray" => /\ cray.read = LookAt(cam.eye, cam.target, YAxis)
                      /\ cray.out = NewRay(cam.eye,
                                           MultVec(LookAt(cam.eye, cam.target, YAxis),
                                                   V((cray.u2 - 1) * One,
                                                     (1 - cray.v2) * One,
                                                     0 - One)))

\* A ray was generated by a camera that has been moved off the origin and
\* pointed along another axis than the one it was built with.
C13_Witness ==
    /\ cop = "Ray"
    /\ cam.eye # V(0, 0, 0)
    /\ cam.target[3] = FNum(0, 1)
    /\ cam.camToWorld # NewPerspective.camToWorld
    /\ ~cray.out.panic

-----------------------------------------------------------------------------
(* Claims about ConvertXYZ *)

\* C14: every channel ConvertXYZ returns lies in [0, 1].
C14_ConvertXYZInUnitRange ==
    gop = "ConvertXYZ" =>
        \A i \in 1..3 :
            /\ gout[i].tag = "num"
            /\ gout[i].num >= 0
            /\ gout[i].num <= gout[i].den

-----------------------------------------------------------------------------
(* Claims about spectra *)

\* C15: Sample of a Sample's result, and Discretize of a Discretize's result,
\* is that same instance with the same values, and evaluates no Lookup.
C15_DiscretizationIdempotent ==
    gop \in {"Sample", "Discretize"} =>
        /\ gout.again.s.id = gout.first.s.id
        /\ gout.again.s.table = gout.first.s.table
        /\ gout.again.lookups = 0
        /\ DOMAIN gout.first.s.table = 0..(NumSamples - 1)

\* Sample has tabulated a distribution that was not a *Sampled, and has been
\* applied to the result.
C15_Witness ==
    /\ gop = "Sample"
    /\ gin.dist.kind = "Discrete"
    /\ gout.first.lookups = NumSamples
    /\ gout.first.s.id # gin.dist.id
    /\ gout.first.s.table[0] # gout.first.s.table[NumSamples - 1]

\* w <= g and g <= w for a wavelength w and a whole number g
AtMost(w, g) == w.tag # "nan" /\ ~FLess(FNum(g, 1), w)
AtLeast(w, g) == w.tag # "nan" /\ ~FLess(w, FNum(g, 1))
GridIndices == 0..(NumSamples - 1)

\* C16: Sampled.Lookup returns 0 below 380 and above 780, and inside the
\* range the value stored for the smallest grid wavelength that is >= w; it
\* never indexes the array outside [0, 80].
C16_SampledLookupStepsUp ==
    gop = "SampledLookup" =>
        /\ ~gout.panic
        /\ gout.idx \in GridIndices \cup {-1}
        /\ (FLess(gin.w, FNum(SampledMin, 1)) \/ FLess(FNum(SampledMax, 1), gin.w))
              => gout.val = FNum(0, 1)
        /\ (AtLeast(gin.w, SampledMin) /\ AtMost(gin.w, SampledMax))
              => \E i \in GridIndices :
                    /\ AtMost(gin.w, sampledWavelengths[i])
                    /\ \A k \in GridIndices :
                          AtMost(gin.w, sampledWavelengths[k]) => i <= k
                    /\ gout.val = gin.table[i]

C18_LerpIsLinearFromAToB ==
    gop = "Lerp" =>
        /\ \A i \in GridIndices :
              gout[i] = FAdd(FMul(gin.a[i], FSub(FNum(1, 1), gin.t)),
                             FMul(gin.b[i], gin.t))
        /\ gin.t = FNum(0, 1) => gout = gin.a
        /\ gin.t = FNum(1, 1) => gout = gin.b

-----------------------------------------------------------------------------
(* Claims about shapes *)

\* The whole-number roots of a*t^2 + b*t + c within reach of the drawn rays
\* (a, b and c are whole multiples of One*One with b/a even, so every
\* rational root is whole).
RootBound == 2 * MaxCoord + MaxRadius + 2
WholeRoots(a, b, c) ==
    {t \in (0 - RootBound)..RootBound : a * t * t + b * t + c = 0}

\* C22: two samples d1 and d2 added to an empty pixel, the accumulated
\* Color divided by Samples (2), give the tristimulus value that converting
\* Lerp(d1, d2, 0.5) gives, for a linear conversion.
C22_AverageOfSamplesIsConvertedLerp ==
    gop = "AddSample" =>
        /\ gout.p.Samples = 2
        /\ \A k \in 1..3 :
              FMul(gout.p.Color[k], FRecip(gout.p.Samples)) = gout.direct[k]

\* two different distributions whose samples convert to different values
C22_Witness ==
    /\ gop = "AddSample"
    /\ gin.d1.kind = "Flat"
    /\ gin.d2.kind = "Discrete"
    /\ ToXYZ(gin.cmf, gin.d1) # ToXYZ(gin.cmf, gin.d2)
    /\ gout.direct[1] # FNum(0, 1)
    /\ FMul(gout.p.Color[1], FRecip(2)) = gout.direct[1]

\* v is the whole number x divided by the square root of the whole l2 > 0.
IsOverRoot(v, x, l2) ==
    /\ v.tag \in {"num", "surd"}
    /\ Sgn(v.num) = Sgn(x)
    /\ v.tag = "num" => v.num * v.num * l2 = x * x * v.den * v.den
    /\ v.tag = "surd" => v.num * v.num * l2 = x * x * v.den

\* C23: for a point that is not the sphere's center, Sphere.Normal returns
\* (point - center) divided by its length, and does not fall back to the
\* default direction.
C23_NormalIsNormalizedOffset ==
    (gop = "SphereNormal" /\ gin.point # gin.center) =>
        LET off == [k \in 1..3 |-> gin.point[k] - gin.center[k]]
            l2 == off[1] * off[1] + off[2] * off[2] + off[3] * off[3]
        IN  /\ ~gout.logged
            /\ \A k \in 1..3 : IsOverRoot(gout.n[k], off[k], l2)

\* The shapes of ts whose Intersect value is above 0.
Hits(ts) == {i \in 1..Len(ts) : FLess(FNum(0, 1), ts[i])}

\* The bijections of 1..n
Orders(n) == {p \in [1..n -> 1..n] : \A i \in 1..n : \E j \in 1..n : p[j] = i}

\* C24: rayColor shades by a shape whose Intersect value is the smallest of
\* those above 0, and by the background exactly when no shape returns a
\* value above 0; when the values above 0 differ, every order of the scene
\* slice has it shade by the same shape.
C24_ClosestPositiveHit ==
    gop = "rayColor" =>
        LET ts == gin.ts
            n == Len(ts)
        IN  /\ gout.background <=> Hits(ts) = {}
            /\ ~gout.background =>
                  /\ gout.sInt \in Hits(ts)
                  /\ \A i \in Hits(ts) : ~FLess(ts[i], ts[gout.sInt])
                  /\ gout.tInt = ts[gout.sInt]
            /\ (\A i \in Hits(ts), j \in Hits(ts) : i # j => ts[i] # ts[j]) =>
                  \A p \in Orders(n) :
                      LET other == rayColor([i \in 1..n |-> ts[p[i]]])
                      IN  /\ other.background = gout.background
                          /\ ~other.background => p[other.sInt] = gout.sInt

\* the closest hit is neither the first nor the last shape, one shape
\* returns 0 and one misses
C24_Witness ==
    /\ gop = "rayColor"
    /\ Len(gin.ts) = 3
    /\ gin.ts[1] = FNum(2, 1)
    /\ gin.ts[2] = FNum(1, 2)
    /\ gin.ts[3] = FNum(0, 1)
    /\ gout.sInt = 2
    /\ ~gout.background

\* x is a finite number and a*x^2 + b*x + c = 0, for whole a, b, c
IsRoot(x, a, b, c) ==
    /\ x.tag = "num"
    /\ a * x.num * x.num + b * x.num * x.den + c * x.den * x.den = 0

\* C26: when SolveQuadratic(a, b, c), a # 0, reports found, r0 <= r1 are
\* the real roots of a*x^2 + b*x + c, both finite, equal exactly when the
\* discriminant is 0 (also for b = 0); found is false exactly when
\* b*b - 4*a*c < 0.
C26_SolveQuadraticRoots ==
    gop = "SolveQuadratic" =>
        LET disc == gin.b * gin.b - 4 * gin.a * gin.c
        IN  /\ gout.found <=> ~(disc < 0)
            /\ gout.found =>
                  /\ IsRoot(gout.r0, gin.a, gin.b, gin.c)
                  /\ IsRoot(gout.r1, gin.a, gin.b, gin.c)
                  /\ ~FLess(gout.r1, gout.r0)
                  /\ (gout.r0 = gout.r1) <=> (disc = 0)

\* C28: for raster coordinates inside a film of width W and height H,
\* PixelAt returns an index in [0, W*H) and RasterCoords takes it back to the
\* coordinates; for an index in [0, W*H), RasterCoords gives coordinates
\* inside the film and PixelAt takes them back to the index.
C28_PixelAtInvertsRasterCoords ==
    /\ gop = "PixelAt" =>
          /\ ~gout.panic
          /\ gout.pxIdx \in 0..(gin.w * gin.h - 1)
          /\ gout.back = <<gin.x, gin.y>>
    /\ gop = "RasterCoords" =>
          /\ gout.rc[1] \in 0..(gin.w - 1)
          /\ gout.rc[2] \in 0..(gin.h - 1)
          /\ ~gout.panic
          /\ gout.pxIdx = gin.i

\* C19: Sphere.Intersect returns the smallest non-negative root of
\* |O - C + tD|^2 = r^2 when there is one, and a negative value when the
\* discriminant is negative or both roots are negative.
C19_SphereNearestRoot ==
    gop = "SphereIntersect" =>
        LET roots == WholeRoots(gin.a, gin.b, gin.c)
            hits == {t \in roots : t >= 0}
        IN  /\ hits # {} =>
                  /\ gout.t.tag = "num" /\ gout.t.den = 1
                  /\ gout.t.num \in hits
                  /\ \A t \in hits : gout.t.num <= t
            /\ hits = {} => FNegative(gout.t)

\* C20: for a non-degenerate triangle, a ray that starts d > 0 from the
\* centroid along the face normal and points back at the centroid is hit at
\* d, and a ray whose direction is perpendicular to the normal is not hit.
C20_TriangleCentroidHit ==
    gop = "TriangleIntersect" =>
        /\ gin.dir = 0 => gout.t = FNum(gin.d, 1)
        /\ gin.dir # 0 => FNegative(gout.t)

-----------------------------------------------------------------------------
\* pkg/metrics/counter.go: Count64 and Quantity64 called from several
\* goroutines.  Each atomic operation of sync/atomic is one step; the load
\* and the compare-and-swap of Quantity64.Inc are two steps, and any step of
\* another goroutine may fall between them.

MaxProcs == 2
MaxMetricOps == 3
Procs == 1..MaxProcs
\* float64 arguments of Quantity64.Inc; all sums of them are exact in float64
MetricValues == {FNum(1, 1), FNum(0 - 1, 1), FNum(1, 2)}
IdleProc == [pc |-> "idle", v |-> FNum(0, 1), oldBits |-> FNum(0, 1),
             interfered |-> FALSE, failed |-> FALSE]

InitMetrics ==
    /\ \E c0 \in {0, MaxMetricOps}, q0 \in {FNum(1, 2)} :
          met = [count0 |-> c0, count |-> c0, incs |-> 0, lastGet |-> c0,
                 qty0 |-> q0, qty |-> q0, qsum |-> FNum(0, 1), lastQ |-> q0,
                 started |-> 0]
    /\ mproc = [p \in Procs |-> IdleProc]

\* Count64.Inc: atomic.AddUint64(c, 1)
Count64Inc(p) ==
    /\ mproc[p].pc = "idle"
    /\ met.started < MaxMetricOps
    /\ met' = [met EXCEPT !.count = @ + 1, !.incs = @ + 1, !.started = @ + 1]
    /\ UNCHANGED mproc
    /\ UNCHANGED notMetrics

\* Count64.Get: atomic.LoadUint64(c)
Count64Get(p) ==
    /\ mproc[p].pc = "idle"
    /\ met' = [met EXCEPT !.lastGet = met.count]
    /\ UNCHANGED mproc
    /\ UNCHANGED notMetrics

\* Quantity64.Inc(v) is called: the goroutine enters the for loop
Quantity64IncCall(p) ==
    /\ mproc[p].pc = "idle"
    /\ met.started < MaxMetricOps
    /\ \E v \in MetricValues :
          mproc' = [mproc EXCEPT ![p] = [IdleProc EXCEPT !.pc = "load", !.v = v]]
    /\ met' = [met EXCEPT !.started = @ + 1]
    /\ UNCHANGED notMetrics

\* oldBits := atomic.LoadUint64(q)
Quantity64IncLoad(p) ==
    /\ mproc[p].pc = "load"
    /\ mproc' = [mproc EXCEPT ![p].pc = "cas", ![p].oldBits = met.qty,
                              ![p].interfered = FALSE]
    /\ UNCHANGED met
    /\ UNCHANGED notMetrics

\* a successful store by p is seen by every goroutine between its load and
\* its compare-and-swap
Interfere(p) ==
    [q \in Procs |->
        IF q = p THEN [mproc[p] EXCEPT !.pc = "idle"]
        ELSE IF mproc[q].pc = "cas" THEN [mproc[q] EXCEPT !.interfered = TRUE]
        ELSE mproc[q]]

\* a read-modify-write that stores without comparing
Quantity64IncCasBlind(p) ==
    /\ mproc[p].pc = "cas"
    /\ met' = [met EXCEPT !.qty = FAdd(mproc[p].oldBits, mproc[p].v),
                          !.qsum = FAdd(@, mproc[p].v)]
    /\ mproc' = Interfere(p)
    /\ UNCHANGED notMetrics

\* newBits := Float64bits(Float64frombits(oldBits) + v);
\* if atomic.CompareAndSwapUint64(q, oldBits, newBits) { return }
Quantity64IncCas(p) ==
    /\ mproc[p].pc = "cas"
    /\ IF met.qty = mproc[p].oldBits
       THEN /\ met' = [met EXCEPT !.qty = FAdd(mproc[p].oldBits, mproc[p].v),
                                  !.qsum = FAdd(@, mproc[p].v)]
            /\ mproc' = Interfere(p)
       ELSE /\ mproc' = [mproc EXCEPT ![p].pc = "load", ![p].failed = TRUE]
            /\ UNCHANGED met
    /\ UNCHANGED notMetrics

\* Quantity64.Get: Float64frombits(atomic.LoadUint64(q))
Quantity64Get(p) ==
    /\ mproc[p].pc = "idle"
    /\ met' = [met EXCEPT !.lastQ = met.qty]
    /\ UNCHANGED mproc
    /\ UNCHANGED notMetrics

CallCount64Inc == \E p \in Procs : Count64Inc(p)
CallCount64Get == \E p \in Procs : Count64Get(p)
CallQuantity64Inc == \E p \in Procs : Quantity64IncCall(p)
StepQuantity64Load == \E p \in Procs : Quantity64IncLoad(p)
StepQuantity64Cas == \E p \in Procs : Quantity64IncCas(p)
CallQuantity64Get == \E p \in Procs : Quantity64Get(p)

NextMetrics ==
    \/ CallCount64Inc
    \/ CallCount64Get
    \/ CallQuantity64Inc
    \/ StepQuantity64Load
    \/ StepQuantity64Cas
    \/ CallQuantity64Get

MetricsInit == IdleRender /\ IdlePartition /\ IdleFilm /\ IdleGeo /\ IdleCamera /\ InitMetrics
SpecMetrics == MetricsInit /\ [][NextMetrics]_vars

\* no Quantity64.Inc is between its call and its return
Quiescent == \A p \in Procs : mproc[p].pc = "idle"

\* C29: under every interleaving the counters lose no update: the Count64 is
\* its initial value plus the number of completed Inc calls and the values
\* Get observes never decrease; the Quantity64 is its initial value plus the
\* sum of the arguments of the completed Inc calls, which is what Get returns
\* once they have completed; and a compare-and-swap of Quantity64.Inc fails
\* only when another Inc has stored between the load and the swap.
C29_NoLostUpdate ==
    /\ [](met.count = met.count0 + met.incs)
    /\ [](met.qty = FAdd(met.qty0, met.qsum))
    /\ [][/\ met'.lastGet >= met.lastGet
          /\ met'.lastGet # met.lastGet => met'.lastGet = met.count0 + met.incs
          /\ met'.lastQ # met.lastQ => met'.lastQ = FAdd(met.qty0, met.qsum)
          /\ \A p \in Procs :
                (mproc[p].pc = "cas" /\ mproc'[p].pc = "load")
                    => mproc[p].interfered]_vars

\* two Inc calls of Quantity64 overlapped, one failed its compare-and-swap
\* and retried, both have returned,
\* and a Count64.Inc has been observed by Get
C29_Witness ==
    /\ Quiescent
    /\ \E p \in Procs : mproc[p].failed
    /\ met.qsum # FNum(0, 1)
    /\ met.incs >= 1
    /\ met.lastGet = met.count0 + 1
    /\ met.lastQ = FAdd(met.qty0, met.qsum)
    /\ met.lastQ # met.qty0

-----------------------------------------------------------------------------
\* The two tiling loops, one iteration per step, for every integer tile
\* size: the for loop of util.Partition and the spawning loop of
\* render.Render.  gin holds the arguments, gout the loop's variables and
\* the tiles made so far.

MaxTileElems == 4
MaxTileSize == 2
TileArgs == [elems : 0..MaxTileElems, size : (0 - MaxTileSize)..MaxTileSize]

\* Tiles of positive size that do not overlap number at most elems, so the
\* loops are followed for one tile more than that and no further.
TilesCap == Len(gout.bins) <= gin.elems

\* Partition is called: bins := make([]Bin, 0); offset := 0
CallPartitionLoop ==
    /\ gop = "init"
    /\ gin' \in TileArgs
    /\ gout' = [elems |-> gin'.elems, offset |-> 0, bins |-> <<>>]
    /\ gop' = "Partition"
    /\ UNCHANGED notGeo

\* for ; size < elems; elems, offset = elems-size, offset+size { append }
PartitionStep ==
    /\ gop = "Partition"
    /\ gin.size < gout.elems
    /\ TilesCap
    /\ gout' = [elems |-> gout.elems - gin.size,
                offset |-> gout.offset + gin.size,
                bins |-> Append(gout.bins, Bin(gout.offset, gin.size))]
    /\ UNCHANGED <<gop, gin>>
    /\ UNCHANGED notGeo

\* if elems > 0 { append Bin{offset, elems} }; return bins
PartitionReturn ==
    /\ gop = "Partition"
    /\ ~(gin.size < gout.elems)
    /\ gout' = [gout EXCEPT !.bins = IF gout.elems > 0
                                     THEN Append(@, Bin(gout.offset, gout.elems))
                                     ELSE @]
    /\ gop' = "returned"
    /\ UNCHANGED gin
    /\ UNCHANGED notGeo

\* Render is called on a film of elems pixels: routines := 0; offset := 0
CallRenderLoop ==
    /\ gop = "init"
    /\ gin' \in TileArgs
    /\ gout' = [elems |-> gin'.elems, offset |-> 0, bins |-> <<>>]
    /\ gop' = "Render"
    /\ UNCHANGED notGeo

\* size := util.IntMin(binSize, len(film.Pixels)-offset); go func(offset,
\* size); routines++; offset += size
RenderLoopSpawn ==
    /\ gop = "Render"
    /\ gout.offset < gin.elems
    /\ TilesCap
    /\ LET size == IntMin(gin.size, gin.elems - gout.offset)
       IN  gout' = [gout EXCEPT !.offset = @ + size,
                                !.bins = Append(@, Bin(gout.offset, size))]
    /\ UNCHANGED <<gop, gin>>
    /\ UNCHANGED notGeo

\* offset < len(film.Pixels) is false: the spawning loop is left
RenderLoopExit ==
    /\ gop = "Render"
    /\ ~(gout.offset < gin.elems)
    /\ gop' = "returned"
    /\ UNCHANGED <<gin, gout>>
    /\ UNCHANGED notGeo

NextTiling ==
    \/ CallPartitionLoop
    \/ PartitionStep
    \/ PartitionReturn
    \/ CallRenderLoop
    \/ RenderLoopSpawn
    \/ RenderLoopExit

TilingInit == IdleRender /\ IdlePartition /\ IdleFilm /\ InitGeo /\ IdleCamera /\ IdleMetrics
\* both loops run on one goroutine that is never blocked
SpecTiling == TilingInit /\ [][NextTiling]_vars /\ WF_vars(NextTiling)

\* C30: for every integer tile size, also size <= 0 on a non-empty film, the
\* loop of util.Partition and the spawning loop of render.Render are left
\* after finitely many tiles, and no tile has a size of zero or less.
C30_TilingTerminates ==
    /\ <>(gop = "returned")
    /\ [](gop # "init" =>
            \A k \in 1..Len(gout.bins) : gout.bins[k].Size > 0)

\* the same for the tile sizes the callers of the repository pass
TilingTerminatesPositiveSize ==
    /\ <>(gop = "returned" \/ (gop # "init" /\ gin.size <= 0))
    /\ [](gop # "init" =>
            (gin.size > 0 =>
                /\ \A k \in 1..Len(gout.bins) : gout.bins[k].Size > 0
                /\ gop = "returned" /\ gin.elems > 0 =>
                      gout.bins = Partition(gin.elems, gin.size)))

\* the loops are left for every integer tile size
TilingLoopsAreLeft == <>(gop = "returned")

\* no tile has a size of zero or less
TilesArePositive ==
    gop # "init" => \A k \in 1..Len(gout.bins) : gout.bins[k].Size > 0

=============================================================================
